---------------------------- MODULE Spec2Model ----------------------------
(***************************************************************************)
(* A model of logport (sa6mwa/logport): the log-line severity classifier,  *)
(* the io.Writer bridge that routes written bytes to Logp, and the PSL     *)
(* console/structured encoder.                                             *)
(*                                                                         *)
(* Text handled by the classifier and the bridge is a sequence of          *)
(* one-character strings; text handled by the encoder is a sequence of     *)
(* bytes (0..255), because the encoder's decisions are on byte values.     *)
(* Indices follow Go: Slice(s, lo, hi) is s[lo:hi], At(s, i) is s[i].      *)
(***************************************************************************)
EXTENDS Integers, Sequences, FiniteSets, TLC

VARIABLES
    raw,        \* classifier: the line handed to classifyLogLine
    pc,         \* classifier: "input" before the call, "done" after it
    level,      \* classifier: the Level returned
    msg,        \* classifier: the message returned
    rule,       \* classifier: the return statement taken (0 = empty input, 1..6)
    slicesOk,   \* classifier: every slice expression on the path taken was in range
    payload,    \* bridge: the bytes p handed to Write
    target,     \* bridge: "nil" or "rec" (a logger recording its Logp calls)
    pinned,     \* bridge: <<>> (WriteToLogger) or <<L>>, the level of a levelPinnedWriter
    wpc,        \* bridge: "input" before the Write, "done" after it
    entries,    \* bridge: the Logp calls received, in order: [level, msg]
    ret,        \* bridge: the (n, err) returned by the Write
    config,     \* encoder: the writer, Options and environment given to NewWithOptions
    logger,     \* encoder: the adapter in hand
    call,       \* encoder: the last logging call made on the adapter in hand
    writes,     \* encoder: the buffers that call handed to writer.Write, in order
    sinkErr,    \* sink: the error the destination's Write returns ("nil" for none)
    effects,    \* sink: what the last call did, in program order (write, exit, panic)
    outcome,    \* sink: how the last call ended and the error it handed its caller
    one,        \* sink: the onelogger adapter in hand
    clock,      \* time cache: the wall clock, in ticks of 1/Second second
    caches,     \* time cache: the timeCache objects allocated, in order
    tadapters,  \* time cache: the adapters constructed or derived, in order
    threads,    \* time cache: each thread's position in its log call and its timestamp
    asked,      \* levels: <<>> or <<L>>, L the argument of the last LogLevel call
    heap,       \* derivation: the backing arrays allocated, in order
    loggers,    \* derivation: the adapters made, their slices as (array, len)
    made,       \* derivation: for each adapter, what it was when it was made
    said,       \* derivation: the last log call, the adapter it was made on, its line
    pool,       \* scratch pool: the scratch objects scratchPool holds
    scratches,  \* scratch pool: the scratch objects allocated, each with its buf slice
    arrays,     \* scratch pool: the byte arrays allocated, each with its capacity
    workers,    \* scratch pool: each thread's position in logInternal, its sc and buf
    sinks,      \* scratch pool: for each thread, what its sink was handed, in order
    ctxs,       \* contexts: the context.Context values made, in order
    stored,     \* contexts: the last ContextWithLogger call and what it returned
    fetched,    \* contexts: the last LoggerFromContext call and what it returned
    heard,      \* contexts: the calls a recording logger taken from a context received
    ctxEnd,     \* contexts: "run", or how the program ended ("panic", "exit")
    origin,     \* level dropping: the logger LogLevel(NoLevel) is called on
    offspring,  \* level dropping: <<>>, or the logger derived from origin
    probed      \* level dropping: the last call, made on both loggers

cvars == <<raw, pc, level, msg, rule, slicesOk>>
bvars == <<payload, target, pinned, wpc, entries, ret>>
evars == <<config, logger, call, writes>>
svars == <<sinkErr, effects, outcome, one>>
tvars == <<clock, caches, tadapters, threads>>
lvars == <<asked>>
dvars == <<heap, loggers, made, said>>
pvars == <<pool, scratches, arrays, workers, sinks>>
kvars == <<ctxs, stored, fetched, heard, ctxEnd>>
nvars == <<origin, offspring, probed>>
yvars == <<tvars, lvars, dvars, pvars, kvars, nvars>>
xvars == <<svars, yvars>>
vars == <<cvars, bvars, evars, xvars>>

(***************************************************************************)
(* Go strings and the package strings                                      *)
(***************************************************************************)
Chars(str) == [i \in 1..Len(str) |-> SubSeq(str, i, i)]

Min(S) == CHOOSE x \in S : \A y \in S : x <= y
Max(S) == CHOOSE x \in S : \A y \in S : x >= y

At(s, i) == s[i + 1]

InRange(s, lo, hi) == 0 <= lo /\ lo <= hi /\ hi <= Len(s)

Slice(s, lo, hi) == SubSeq(s, lo + 1, hi)

SliceFrom(s, lo) == SubSeq(s, lo + 1, Len(s))

\* unicode.IsSpace restricted to the characters a Go string literal of the
\* model can hold: " ", \t, \n, \r, \f.
SpaceChars == {" ", "\t", "\n", "\r", "\f"}

TrimLeft(s, cutset) ==
    LET keep == {i \in 1..Len(s) : s[i] \notin cutset}
    IN  IF keep = {} THEN <<>> ELSE SubSeq(s, Min(keep), Len(s))

TrimRight(s, cutset) ==
    LET keep == {i \in 1..Len(s) : s[i] \notin cutset}
    IN  IF keep = {} THEN <<>> ELSE SubSeq(s, 1, Max(keep))

TrimSpace(s) == TrimRight(TrimLeft(s, SpaceChars), SpaceChars)

HasPrefix(s, prefix) ==
    Len(s) >= Len(prefix) /\ SubSeq(s, 1, Len(prefix)) = prefix

TrimPrefix(s, prefix) ==
    IF HasPrefix(s, prefix) THEN SliceFrom(s, Len(prefix)) ELSE s

\* strings.IndexAny / strings.Index for a one-character needle: the 0-based
\* index of the first character of s in chars, or -1.
IndexAny(s, chars) ==
    LET hits == {i \in 1..Len(s) : s[i] \in chars}
    IN  IF hits = {} THEN -1 ELSE Min(hits) - 1

(***************************************************************************)
(* Level (logport.Level)                                                   *)
(***************************************************************************)
\* type Level int8
DebugLevel == 0
InfoLevel == 1
WarnLevel == 2
ErrorLevel == 3
FatalLevel == 4
PanicLevel == 5
NoLevel == 6
Disabled == 7
TraceLevel == -1

Levels == {TraceLevel, DebugLevel, InfoLevel, WarnLevel, ErrorLevel,
           FatalLevel, PanicLevel, NoLevel, Disabled}

(***************************************************************************)
(* The classifier                                                          *)
(***************************************************************************)
UpperLetters == Chars("ABCDEFGHIJKLMNOPQRSTUVWXYZ")
LowerLetters == Chars("abcdefghijklmnopqrstuvwxyz")

toLowerASCII(b) ==
    IF \E i \in 1..26 : UpperLetters[i] = b
    THEN LowerLetters[CHOOSE i \in 1..26 : UpperLetters[i] = b]
    ELSE b

\* asciiEqualFold comparing the bytes as they are (no case folding).
asciiEqualExact(s, t) == s = t

asciiEqualFold(s, t) ==
    /\ Len(s) = Len(t)
    /\ \A i \in 1..Len(s) : toLowerASCII(s[i]) = t[i]

DelimiterChars ==
    {" ", "\t", "\r", "\n", ":", "|", "-", "[", "]", "(", ")",
     "{", "}", "<", ">", ";", ".", ",", "\"", "'"}

isDelimiter(b) == b \in DelimiterChars

httpTLSHandshakePrefix == Chars("http: TLS handshake error")

errorNeedle == Chars("error")

\* levelFromToken returns (Level, bool).
levelFromToken(token) ==
    LET normalized == TrimRight(TrimLeft(token, DelimiterChars), DelimiterChars)
        is(name) == asciiEqualFold(normalized, Chars(name))
    IN  IF normalized = <<>> THEN [level |-> NoLevel, ok |-> FALSE]
        ELSE IF is("trace") \/ is("trc") THEN [level |-> TraceLevel, ok |-> TRUE]
        ELSE IF is("debug") \/ is("dbg") THEN [level |-> DebugLevel, ok |-> TRUE]
        ELSE IF is("info") \/ is("inf") \/ is("information")
            THEN [level |-> InfoLevel, ok |-> TRUE]
        ELSE IF is("warn") \/ is("warning") \/ is("wrn")
            THEN [level |-> WarnLevel, ok |-> TRUE]
        ELSE IF is("error") \/ is("err") THEN [level |-> ErrorLevel, ok |-> TRUE]
        ELSE IF is("fatal") \/ is("crit") \/ is("critical")
            THEN [level |-> FatalLevel, ok |-> TRUE]
        ELSE IF is("panic") \/ is("alert") THEN [level |-> PanicLevel, ok |-> TRUE]
        ELSE [level |-> NoLevel, ok |-> FALSE]

\* splitLeadingToken returns (token, rest).
splitLeadingToken(s) ==
    LET i == IndexAny(s, {" ", "\t", ":", "|", "-"})
    IN  IF i >= 0 THEN [token |-> Slice(s, 0, i), rest |-> SliceFrom(s, i)]
        ELSE [token |-> s, rest |-> <<>>]

\* indexErrorSubstring matching the needle's bytes exactly (no case folding).
indexErrorSubstringExact(s) ==
    LET n == Len(errorNeedle)
        hits == {i \in 0..(Len(s) - n) :
                    \A j \in 0..(n - 1) : At(s, i + j) = At(errorNeedle, j)}
    IN  IF hits = {} THEN -1 ELSE Min(hits)

\* indexErrorSubstring: the 0-based index of the first case-insensitive
\* occurrence of "error" in s, or -1.
indexErrorSubstring(s) ==
    LET n == Len(errorNeedle)
        limit == Len(s) - n
        hits == {i \in 0..limit :
                    \A j \in 0..(n - 1) : toLowerASCII(At(s, i + j)) = At(errorNeedle, j)}
    IN  IF hits = {} THEN -1 ELSE Min(hits)

ClassifyResult(l, m, r, ok) == [level |-> l, msg |-> m, rule |-> r, ok |-> ok]

\* classifyFallback returning the empty message when nothing matches.
classifyFallbackEmpty(trimmed) ==
    LET idx == indexErrorSubstring(trimmed)
        after == idx + Len(errorNeedle)
        tail == IF after < Len(trimmed)
                THEN TrimLeft(TrimSpace(SliceFrom(trimmed, after)), {":", " "})
                ELSE <<>>
    IN  IF idx >= 0
        THEN ClassifyResult(ErrorLevel, IF tail = <<>> THEN trimmed ELSE tail, 5, TRUE)
        ELSE ClassifyResult(NoLevel, <<>>, 6, TRUE)

\* The tail of classifyLogLine from the "error" substring search on.
classifyFallback(trimmed) ==
    LET idx == indexErrorSubstring(trimmed)
        after == idx + Len(errorNeedle)
        tail == IF after < Len(trimmed)
                THEN TrimLeft(TrimSpace(SliceFrom(trimmed, after)), {":", " "})
                ELSE <<>>
    IN  IF idx >= 0
        THEN ClassifyResult(ErrorLevel, IF tail = <<>> THEN trimmed ELSE tail, 5,
                            InRange(trimmed, after, Len(trimmed)))
        ELSE ClassifyResult(NoLevel, trimmed, 6, TRUE)

\* The part of classifyLogLine from the IndexAny(":|-") test on.
classifyEmbedded(trimmed) ==
    LET idx == IndexAny(trimmed, {":", "|", "-"})
        tok == levelFromToken(Slice(trimmed, 0, idx))
    IN  IF idx > 0 /\ tok.ok
        THEN ClassifyResult(tok.level, TrimSpace(SliceFrom(trimmed, idx + 1)), 4,
                            InRange(trimmed, idx + 1, Len(trimmed)))
        ELSE classifyFallback(trimmed)

\* classifyLeading with the "error" substring search tried before the tokens.
classifyLeadingSubstringFirst(trimmed) ==
    LET split == splitLeadingToken(trimmed)
        tok == levelFromToken(split.token)
        m1 == TrimLeft(split.rest, {" ", "\t"})
        m2 == TrimPrefix(m1, <<":">>)
        m3 == TrimLeft(m2, {" ", "\t", "-", "|", ":"})
    IN  IF indexErrorSubstring(trimmed) >= 0 THEN classifyFallback(trimmed)
        ELSE IF tok.ok THEN ClassifyResult(tok.level, TrimSpace(m3), 3, TRUE)
        ELSE classifyEmbedded(trimmed)

\* The part of classifyLogLine from splitLeadingToken on.
classifyLeading(trimmed) ==
    LET split == splitLeadingToken(trimmed)
        tok == levelFromToken(split.token)
        m1 == TrimLeft(split.rest, {" ", "\t"})
        m2 == TrimPrefix(m1, <<":">>)
        m3 == TrimLeft(m2, {" ", "\t", "-", "|", ":"})
    IN  IF tok.ok
        THEN ClassifyResult(tok.level, TrimSpace(m3), 3, TRUE)
        ELSE classifyEmbedded(trimmed)

\* The part of classifyLogLine from the "[" test on.
classifyBracket(trimmed) ==
    LET idx == IndexAny(trimmed, {"]"})
        tok == levelFromToken(Slice(trimmed, 1, idx))
    IN  IF HasPrefix(trimmed, <<"[">>) /\ idx > 1 /\ tok.ok
        THEN ClassifyResult(tok.level, TrimSpace(SliceFrom(trimmed, idx + 1)), 2,
                            InRange(trimmed, 1, idx) /\ InRange(trimmed, idx + 1, Len(trimmed)))
        ELSE classifyLeading(trimmed)

\* classifyLogLine without the TLS handshake special case.
classifyLogLineNoTLS(line) ==
    LET trimmed == TrimSpace(line)
    IN  IF trimmed = <<>> THEN ClassifyResult(NoLevel, <<>>, 0, TRUE)
        ELSE classifyBracket(trimmed)

classifyLogLine(line) ==
    LET trimmed == TrimSpace(line)
    IN  IF trimmed = <<>> THEN ClassifyResult(NoLevel, <<>>, 0, TRUE)
        ELSE IF HasPrefix(trimmed, httpTLSHandshakePrefix)
        THEN ClassifyResult(
                ErrorLevel,
                TrimLeft(TrimSpace(SliceFrom(trimmed, Len(httpTLSHandshakePrefix))),
                         {":", " "}),
                1, TRUE)
        ELSE classifyBracket(trimmed)

(***************************************************************************)
(* The io.Writer bridge: WriteToLogger, levelPinnedWriter, writeBytesToLogger*)
(***************************************************************************)
\* A Logp call: the level and message passed, and the line of p it was made for.
LogpCall(l, m, line) == [level |-> l, msg |-> m, line |-> line]

\* The level passed to Logp with the override of a pinned writer ignored.
deliveredLevelDetected(detected, override) == detected

\* The level passed to Logp: the override of a pinned writer when there is
\* one (<<L>>; <<>> is the nil pointer), the detected level otherwise.
deliveredLevel(detected, override) ==
    IF override # <<>> THEN override[1] ELSE detected

RECURSIVE writeBytesToLogger(_, _)
\* writeBytesToLogger leaving the loop at the first blank line.
writeBytesToLoggerStopAtBlank(p, override) ==
    IF Len(p) = 0 THEN <<>>
    ELSE LET idx == IndexAny(p, {"\n"})
             line == IF idx >= 0 THEN Slice(p, 0, idx) ELSE p
             rest == IF idx >= 0 THEN SliceFrom(p, idx + 1) ELSE <<>>
             rawLine == TrimRight(line, {"\r"})
             c == classifyLogLine(rawLine)
             m == IF c.msg = <<>> THEN TrimSpace(rawLine) ELSE c.msg
         IN  IF TrimSpace(rawLine) = <<>> \/ m = <<>> THEN <<>>
             ELSE <<LogpCall(deliveredLevel(c.level, override), m, line)>>
                  \o writeBytesToLogger(rest, override)

\* The Logp calls writeBytesToLogger makes on a logger, in order.
writeBytesToLogger(p, override) ==
    IF Len(p) = 0 THEN <<>>
    ELSE LET idx == IndexAny(p, {"\n"})
             line == IF idx >= 0 THEN Slice(p, 0, idx) ELSE p
             rest == IF idx >= 0 THEN SliceFrom(p, idx + 1) ELSE <<>>
             rawLine == TrimRight(line, {"\r"})
             c == classifyLogLine(rawLine)
             m == IF c.msg = <<>> THEN TrimSpace(rawLine) ELSE c.msg
             calls == IF TrimSpace(rawLine) = <<>> \/ m = <<>> THEN <<>>
                      ELSE <<LogpCall(deliveredLevel(c.level, override), m, line)>>
         IN  calls \o writeBytesToLogger(rest, override)

(***************************************************************************)
(* Bytes, UTF-8 and the strconv / fmt formatting the encoder calls         *)
(***************************************************************************)
\* The printable ASCII characters in code order: the i-th has code 31 + i
\* (code 96, the grave accent, cannot be written in a string of this language).
PrintableASCII ==
    Chars(" !\"#$%&'()*+,-./0123456789:;<=>?@ABCDEFGHIJKLMNOPQRSTUVWXYZ[\\]^_")
        \o <<"grave">>
        \o Chars("abcdefghijklmnopqrstuvwxyz{|}~")

\* The code of each character a string of this language can hold
CodeOf ==
    [c \in {PrintableASCII[k] : k \in 1..Len(PrintableASCII)} \cup {"\t", "\n", "\r"} |->
        CASE c = "\t" -> 9
          [] c = "\n" -> 10
          [] c = "\r" -> 13
          [] OTHER -> 31 + (CHOOSE k \in 1..Len(PrintableASCII) : PrintableASCII[k] = c)]

ByteOf(c) == CodeOf[c]

\* A Go string literal as its bytes.
B(str) == [i \in 1..Len(str) |-> ByteOf(SubSeq(str, i, i))]

RuneError == 65533

\* utf8.DecodeRuneInString(s[i:]) for a 0-based i: the rune and its width.
DecodeRune(s, i) ==
    LET n == Len(s) - i
        s0 == At(s, i)
        s1 == At(s, i + 1)
        s2 == At(s, i + 2)
        s3 == At(s, i + 3)
        invalid == [r |-> RuneError, size |-> 1]
        \* first[s0]: the width, and the range accepted for the second byte.
        sz == IF s0 >= 194 /\ s0 <= 223 THEN 2
              ELSE IF s0 >= 224 /\ s0 <= 239 THEN 3
              ELSE IF s0 >= 240 /\ s0 <= 244 THEN 4
              ELSE 0
        lo == IF s0 = 224 THEN 160 ELSE IF s0 = 240 THEN 144 ELSE 128
        hi == IF s0 = 237 THEN 159 ELSE IF s0 = 244 THEN 143 ELSE 191
        cont(b) == b >= 128 /\ b <= 191
    IN  IF n < 1 THEN [r |-> RuneError, size |-> 0]
        ELSE IF s0 < 128 THEN [r |-> s0, size |-> 1]
        ELSE IF sz = 0 THEN invalid
        ELSE IF n < sz THEN invalid
        ELSE IF s1 < lo \/ hi < s1 THEN invalid
        ELSE IF sz <= 2 THEN [r |-> (s0 % 32) * 64 + (s1 % 64), size |-> 2]
        ELSE IF ~cont(s2) THEN invalid
        ELSE IF sz <= 3
            THEN [r |-> (s0 % 16) * 4096 + (s1 % 64) * 64 + (s2 % 64), size |-> 3]
        ELSE IF ~cont(s3) THEN invalid
        ELSE [r |-> (s0 % 8) * 262144 + (s1 % 64) * 4096 + (s2 % 64) * 64 + (s3 % 64),
              size |-> 4]

hexDigits == B("0123456789abcdef")

\* strconv.AppendUint(nil, n, 10) for n >= 0
RECURSIVE FormatUint(_)
FormatUint(n) ==
    IF n < 10 THEN <<48 + n>> ELSE FormatUint(n \div 10) \o <<48 + (n % 10)>>

\* strconv.AppendInt(nil, n, 10)
FormatInt(n) == IF n < 0 THEN <<45>> \o FormatUint(-n) ELSE FormatUint(n)

\* strconv.AppendBool(nil, b)
FormatBool(b) == IF b THEN B("true") ELSE B("false")

\* strconv.IsPrint for the runes below 0x100; the runes from 0x100 on are
\* taken as printable (no text of the model holds a rune that is not).
IsPrint(r) ==
    IF r <= 255
    THEN (32 <= r /\ r < 127) \/ (161 <= r /\ r # 173)
    ELSE TRUE

Hex2(b) == <<hexDigits[(b \div 16) + 1], hexDigits[(b % 16) + 1]>>

Hex4(r) == Hex2(r \div 256) \o Hex2(r % 256)

\* strconv.Quote(s) from the 0-based index i on, without the closing quote.
RECURSIVE QuoteFrom(_, _)
QuoteFrom(s, i) ==
    IF i >= Len(s) THEN <<>>
    ELSE LET d == DecodeRune(s, i)
             r == d.r
             bytes == Slice(s, i, i + d.size)
             esc == IF d.size = 1 /\ r = RuneError THEN B("\\x") \o Hex2(At(s, i))
                    ELSE IF r = 34 \/ r = 92 THEN <<92, r>>
                    ELSE IF IsPrint(r) THEN bytes
                    ELSE IF r = 7 THEN B("\\a")
                    ELSE IF r = 8 THEN B("\\b")
                    ELSE IF r = 12 THEN B("\\f")
                    ELSE IF r = 10 THEN B("\\n")
                    ELSE IF r = 13 THEN B("\\r")
                    ELSE IF r = 9 THEN B("\\t")
                    ELSE IF r = 11 THEN B("\\v")
                    ELSE IF r < 32 \/ r = 127 THEN B("\\x") \o Hex2(r)
                    ELSE IF r < 65536 THEN B("\\u") \o Hex4(r)
                    ELSE B("\\U00") \o Hex2(r \div 65536) \o Hex4(r % 65536)
         IN  esc \o QuoteFrom(s, i + d.size)

\* strconv.Quote(s)
Quote(s) == <<34>> \o QuoteFrom(s, 0) \o <<34>>

(***************************************************************************)
(* time.Time.Format for the layouts of the model                           *)
(***************************************************************************)
\* An instant is [year, month, day, hour, minute, second, offset], offset in
\* minutes east of UTC.
Pad2(n) == <<48 + (n \div 10), 48 + (n % 10)>>

Pad4(n) == Pad2(n \div 100) \o Pad2(n % 100)

\* Time.UTC(), for an instant that is on the same day in UTC
UTC(t) ==
    LET minutes == t.hour * 60 + t.minute - t.offset
    IN  [t EXCEPT !.hour = minutes \div 60, !.minute = minutes % 60, !.offset = 0]

stdZone(t) ==
    IF t.offset = 0 THEN <<90>>
    ELSE (IF t.offset < 0 THEN <<45>> ELSE <<43>>)
         \o Pad2((IF t.offset < 0 THEN -t.offset ELSE t.offset) \div 60)
         \o <<58>>
         \o Pad2((IF t.offset < 0 THEN -t.offset ELSE t.offset) % 60)

std2006 == B("2006")
std01 == B("01")
std02 == B("02")
std15 == B("15")
std04 == B("04")
std05 == B("05")
stdZ0700 == B("Z07:00")
stdFracSecond9 == B(".999999999")

\* The digits of n from the one worth `unit` down, trailing zeros dropped
RECURSIVE FractionDigits(_, _)
FractionDigits(n, unit) ==
    IF n = 0 THEN <<>>
    ELSE <<48 + (n \div unit)>> \o FractionDigits(n % unit, unit \div 10)

\* The fraction of a second for the chunk .999999999: nothing when it is zero
formatNano(nano) ==
    IF nano = 0 THEN <<>> ELSE <<46>> \o FractionDigits(nano, 100000000)

\* Time.Format(layout): the chunks 2006 01 02 15 04 05 .999999999 Z07:00 are
\* replaced, every other byte of the layout is copied.
RECURSIVE Format(_, _)
Format(layout, t) ==
    IF layout = <<>> THEN <<>>
    ELSE IF HasPrefix(layout, std2006)
        THEN Pad4(t.year) \o Format(SliceFrom(layout, 4), t)
    ELSE IF HasPrefix(layout, stdZ0700)
        THEN stdZone(t) \o Format(SliceFrom(layout, 6), t)
    ELSE IF HasPrefix(layout, stdFracSecond9)
        THEN formatNano(t.nano) \o Format(SliceFrom(layout, 10), t)
    ELSE IF HasPrefix(layout, std01)
        THEN Pad2(t.month) \o Format(SliceFrom(layout, 2), t)
    ELSE IF HasPrefix(layout, std02)
        THEN Pad2(t.day) \o Format(SliceFrom(layout, 2), t)
    ELSE IF HasPrefix(layout, std15)
        THEN Pad2(t.hour) \o Format(SliceFrom(layout, 2), t)
    ELSE IF HasPrefix(layout, std04)
        THEN Pad2(t.minute) \o Format(SliceFrom(layout, 2), t)
    ELSE IF HasPrefix(layout, std05)
        THEN Pad2(t.second) \o Format(SliceFrom(layout, 2), t)
    ELSE <<Head(layout)>> \o Format(Tail(layout), t)

DTGTimeFormat == B("021504")
RFC3339 == B("2006-01-02T15:04:05Z07:00")
RFC3339Nano == B("2006-01-02T15:04:05.999999999Z07:00")
DateTime == B("2006-01-02 15:04:05")
DateOnly == B("2006-01-02")
TimeOnly == B("15:04:05")

\* cacheableLayouts: the entries whose chunks Format above knows
cacheableLayouts == {DTGTimeFormat, RFC3339, RFC3339Nano, DateTime, DateOnly, TimeOnly}

isCacheableLayout(layout) == layout \in cacheableLayouts

\* Time.String() of a Time without a monotonic clock reading (one made by
\* time.Date or by parsing): the layout 2006-01-02 15:04:05.999999999 -0700 MST
timeString(t) ==
    LET off == IF t.offset < 0 THEN -t.offset ELSE t.offset
    IN  Pad4(t.year) \o <<45>> \o Pad2(t.month) \o <<45>> \o Pad2(t.day) \o <<32>>
        \o Pad2(t.hour) \o <<58>> \o Pad2(t.minute) \o <<58>> \o Pad2(t.second)
        \o formatNano(t.nano) \o <<32>>
        \o (IF t.offset < 0 THEN <<45>> ELSE <<43>>)
        \o Pad2(off \div 60) \o Pad2(off % 60) \o <<32>> \o t.zone

(***************************************************************************)
(* Field values (the dynamic types of a kv.value)                          *)
(***************************************************************************)
StringValue(s) == [kind |-> "string", s |-> s]
BytesValue(s) == [kind |-> "bytes", s |-> s]
ErrorValue(s) == [kind |-> "error", s |-> s]
IntValue(n) == [kind |-> "int", n |-> n]
BoolValue(b) == [kind |-> "bool", b |-> b]
NilValue == [kind |-> "nil"]
\* time.Time
TimeValue(t) == [kind |-> "time", t |-> t]
\* json.Number
NumberValue(s) == [kind |-> "number", s |-> s]
\* A value of a type with no case of its own (a struct, a map, a channel):
\* what fmt.Sprint prints for it and what json.Marshal returns for it
OpaqueValue(text, marshal) == [kind |-> "opaque", text |-> text, marshal |-> marshal]
\* A value whose type has a MarshalJSON method, with what the method returns
MarshalerValue(text, marshal) == [kind |-> "marshaler", text |-> text, marshal |-> marshal]

\* The result of json.Marshal or MarshalJSON: the bytes, or the error's text
Marshaled(bytes) == [ok |-> TRUE, out |-> bytes]
MarshalError(text) == [ok |-> FALSE, out |-> text]

\* The dynamic type has a String() string method (fmt.Stringer)
implementsStringer(v) == v.kind \in {"time", "number"}

\* v.String()
String(v) == IF v.kind = "time" THEN timeString(v.t) ELSE v.s

\* The dynamic type has a MarshalJSON method (json.Marshaler)
implementsMarshaler(v) == v.kind \in {"time", "marshaler"}

\* v.MarshalJSON()
MarshalJSON(v) ==
    IF v.kind = "time" THEN Marshaled(<<34>> \o Format(RFC3339Nano, v.t) \o <<34>>)
    ELSE v.marshal

RECURSIVE JoinDecimal(_)
JoinDecimal(s) ==
    IF s = <<>> THEN <<>>
    ELSE IF Len(s) = 1 THEN FormatUint(s[1])
    ELSE FormatUint(s[1]) \o <<32>> \o JoinDecimal(Tail(s))

\* fmt.Sprint(v)
Sprint(v) ==
    CASE v.kind = "string" -> v.s
      [] v.kind = "error" -> v.s
      [] v.kind = "int" -> FormatInt(v.n)
      [] v.kind = "bool" -> FormatBool(v.b)
      [] v.kind = "nil" -> B("<nil>")
      [] v.kind = "bytes" -> <<91>> \o JoinDecimal(v.s) \o <<93>>
      [] v.kind = "time" -> timeString(v.t)
      [] v.kind = "number" -> v.s
      [] v.kind \in {"opaque", "marshaler"} -> v.text

(***************************************************************************)
(* The PSL encoder (adapters/psl)                                          *)
(***************************************************************************)
ModeConsole == 0
ModeStructured == 1

ansiReset == <<27>> \o B("[0m")
ansiBold == <<27>> \o B("[1m")
ansiFaint == <<27>> \o B("[90m")
ansiRed == <<27>> \o B("[31m")
ansiGreen == <<27>> \o B("[32m")
ansiYellow == <<27>> \o B("[33m")
ansiBlue == <<27>> \o B("[34m")
ansiMagenta == <<27>> \o B("[35m")
ansiCyan == <<27>> \o B("[36m")
ansiBrightRed == <<27>> \o B("[1;31m")
ansiBrightGreen == <<27>> \o B("[1;32m")
ansiBrightYellow == <<27>> \o B("[1;33m")

\* The short names with the verbose message key left in, for comparison
shortFieldNamesMixed ==
    [time |-> B("ts"), level |-> B("lvl"), message |-> B("message"),
     timePrefix |-> B("\"ts\":\""), levelPrefix |-> B("\"lvl\":\""),
     messagePrefix |-> B("\"message\":\"")]

\* fieldNames: the keys, and the prefixes of the fast path
shortFieldNames ==
    [time |-> B("ts"), level |-> B("lvl"), message |-> B("msg"),
     timePrefix |-> B("\"ts\":\""), levelPrefix |-> B("\"lvl\":\""),
     messagePrefix |-> B("\"msg\":\"")]

verboseFieldNames ==
    [time |-> B("time"), level |-> B("level"), message |-> B("message"),
     timePrefix |-> B("\"time\":\""), levelPrefix |-> B("\"level\":\""),
     messagePrefix |-> B("\"message\":\"")]

\* kv
KV(k, v) == [key |-> k, value |-> v]

\* A needsQuote that finds nothing to quote, for comparison
quoteNothing(s) == FALSE

needsQuote(s) ==
    \E i \in 1..Len(s) :
        s[i] < 32 \/ s[i] > 126 \/ s[i] = 32 \/ s[i] = 92 \/ s[i] = 34

\* appendJSONString's loop from the 0-based index i on. The code copies the
\* run of bytes it does not escape in one append; here each rune of the run
\* is appended as it is passed, which gives the same bytes.
RECURSIVE appendJSONStringFrom(_, _)
appendJSONStringFrom(s, i) ==
    IF i >= Len(s) THEN <<>>
    ELSE LET d == DecodeRune(s, i)
             r == d.r
             bytes == Slice(s, i, i + d.size)
             out == IF r >= 32 /\ r # 92 /\ r # 34 THEN bytes
                    ELSE IF r = 34 \/ r = 92 THEN <<92, r>>
                    ELSE IF r = 8 THEN B("\\b")
                    ELSE IF r = 12 THEN B("\\f")
                    ELSE IF r = 10 THEN B("\\n")
                    ELSE IF r = 13 THEN B("\\r")
                    ELSE IF r = 9 THEN B("\\t")
                    ELSE IF r < 32 THEN B("\\u00") \o Hex2(r)
                    ELSE IF r = RuneError /\ d.size = 1 THEN B("\\ufffd")
                    ELSE bytes
         IN  out \o appendJSONStringFrom(s, i + d.size)

\* appendJSONString(nil, s)
appendJSONString(s) == <<34>> \o appendJSONStringFrom(s, 0) \o <<34>>

shouldHighlight(lvl) ==
    lvl \in {InfoLevel, WarnLevel, ErrorLevel, FatalLevel, PanicLevel}

\* A consoleLevel without the case of NoLevel, which then takes the default,
\* for comparison
consoleLevelWithoutNoLevel(lvl) ==
    CASE lvl = TraceLevel -> [str |-> B("TRC"), color |-> ansiBlue]
      [] lvl = DebugLevel -> [str |-> B("DBG"), color |-> <<>>]
      [] lvl = InfoLevel -> [str |-> B("INF"), color |-> ansiGreen]
      [] lvl = WarnLevel -> [str |-> B("WRN"), color |-> ansiYellow]
      [] lvl = ErrorLevel -> [str |-> B("ERR"), color |-> ansiRed]
      [] lvl = FatalLevel -> [str |-> B("FTL"), color |-> ansiRed]
      [] lvl = PanicLevel -> [str |-> B("PNC"), color |-> ansiRed]
      [] OTHER -> [str |-> B("INF"), color |-> ansiGreen]

\* consoleLevel: the three-letter code and its colour ("" is <<>>)
consoleLevel(lvl) ==
    CASE lvl = TraceLevel -> [str |-> B("TRC"), color |-> ansiBlue]
      [] lvl = DebugLevel -> [str |-> B("DBG"), color |-> <<>>]
      [] lvl = InfoLevel -> [str |-> B("INF"), color |-> ansiGreen]
      [] lvl = WarnLevel -> [str |-> B("WRN"), color |-> ansiYellow]
      [] lvl = ErrorLevel -> [str |-> B("ERR"), color |-> ansiRed]
      [] lvl = FatalLevel -> [str |-> B("FTL"), color |-> ansiRed]
      [] lvl = PanicLevel -> [str |-> B("PNC"), color |-> ansiRed]
      [] lvl = NoLevel -> [str |-> B("---"), color |-> <<>>]
      [] OTHER -> [str |-> B("INF"), color |-> ansiGreen]

structuredLevel(lvl) ==
    CASE lvl = TraceLevel -> B("trace")
      [] lvl = DebugLevel -> B("debug")
      [] lvl = InfoLevel -> B("info")
      [] lvl = WarnLevel -> B("warn")
      [] lvl = ErrorLevel -> B("error")
      [] lvl = FatalLevel -> B("fatal")
      [] lvl = PanicLevel -> B("panic")
      [] lvl = NoLevel -> B("nolevel")
      [] lvl = Disabled -> B("disabled")
      [] OTHER -> B("info")

\* The case of the type switch of formatConsoleValue that v takes, the cases
\* in the order of the source (the first case the dynamic type satisfies is
\* the one taken): the text, and whether the case quotes a text that
\* needsQuote.
formatConsoleValueCase(v) ==
    IF v.kind = "string" THEN [quotes |-> TRUE, text |-> v.s]
    ELSE IF implementsStringer(v) THEN [quotes |-> TRUE, text |-> String(v)]
    ELSE IF v.kind = "error" THEN [quotes |-> TRUE, text |-> v.s]
    ELSE IF v.kind = "time" THEN [quotes |-> FALSE, text |-> Format(RFC3339Nano, v.t)]
    ELSE [quotes |-> FALSE, text |-> Sprint(v)]

quoteWhenNeeded(c) ==
    IF c.quotes /\ needsQuote(c.text) THEN Quote(c.text) ELSE c.text

formatConsoleValue(v) == quoteWhenNeeded(formatConsoleValueCase(v))

RECURSIVE writeConsoleFields(_, _)
writeConsoleFields(fields, color) ==
    IF fields = <<>> THEN <<>>
    ELSE LET f == Head(fields)
         IN  <<32>>
             \o (IF color
                 THEN ansiCyan \o f.key \o <<61>> \o ansiReset
                 ELSE f.key \o <<61>>)
             \o formatConsoleValue(f.value)
             \o writeConsoleFields(Tail(fields), color)

writeConsole(lvl, m, fields, timestamp, includeTime, color) ==
    LET cl == consoleLevel(lvl)
    IN  (IF includeTime
         THEN (IF color THEN ansiFaint \o timestamp \o ansiReset ELSE timestamp)
              \o <<32>>
         ELSE <<>>)
        \o (IF color /\ cl.color # <<>>
            THEN cl.color \o cl.str \o ansiReset
            ELSE cl.str)
        \o (IF m # <<>>
            THEN <<32>> \o (IF color /\ shouldHighlight(lvl)
                            THEN ansiBold \o m \o ansiReset
                            ELSE m)
            ELSE <<>>)
        \o writeConsoleFields(fields, color)

\* appendFastStringField with a non-nil prefix (every fieldNames has one)
appendFastStringField(first, prefix, value) ==
    (IF first THEN <<>> ELSE <<44>>) \o prefix \o value \o <<34>>

appendQuotedField(first, key, value) ==
    (IF first THEN <<>> ELSE <<44>>)
        \o appendJSONString(key) \o <<58>> \o appendJSONString(value)

writeJSONKey(key, color) ==
    (IF color THEN ansiCyan ELSE <<>>)
        \o appendJSONString(key)
        \o (IF color THEN ansiReset ELSE <<>>)

writeJSONString(str, color, dim) ==
    (IF color /\ ~dim THEN ansiGreen ELSE <<>>)
        \o appendJSONString(str)
        \o (IF color THEN ansiReset ELSE <<>>)

\* What a case of the type switch of writeJSONValue and writeJSONValuePlain
\* writes: the text, whether the text goes through the string encoder, the
\* colour of a text written as it is, and whether the text is that of an
\* error of the marshaling.
jsonCase(quoted, text, paint) ==
    [quoted |-> quoted, text |-> text, paint |-> paint, failed |-> FALSE]

\* bytes, err := v.MarshalJSON() or json.Marshal(v): the error's text as a
\* string, or the bytes as they are (writeJSONRaw, magenta when coloured)
marshalCase(r) ==
    [quoted |-> ~r.ok, text |-> r.out, paint |-> ansiMagenta, failed |-> ~r.ok]

\* The case v takes, the cases in the order of the source, the inner switch
\* of the default case after the outer ones.
writeJSONValueCase(v) ==
    IF v.kind = "string" THEN jsonCase(TRUE, v.s, <<>>)
    ELSE IF implementsStringer(v) THEN jsonCase(TRUE, String(v), <<>>)
    ELSE IF v.kind = "error" THEN jsonCase(TRUE, v.s, <<>>)
    ELSE IF v.kind = "bool" THEN jsonCase(FALSE, FormatBool(v.b), ansiYellow)
    ELSE IF v.kind = "time" THEN jsonCase(TRUE, Format(RFC3339Nano, v.t), <<>>)
    ELSE IF implementsMarshaler(v) THEN marshalCase(MarshalJSON(v))
    ELSE IF v.kind = "nil" THEN jsonCase(FALSE, B("null"), ansiFaint)
    ELSE IF v.kind = "int" THEN jsonCase(FALSE, FormatInt(v.n), ansiMagenta)
    ELSE IF v.kind = "number" THEN jsonCase(FALSE, v.s, ansiMagenta)
    ELSE IF v.kind = "bytes" THEN jsonCase(TRUE, v.s, <<>>)
    ELSE marshalCase(v.marshal)

\* The case written without colour
plainJSONCase(c) == IF c.quoted THEN appendJSONString(c.text) ELSE c.text

\* The case written without colour, the error of a marshaling dropped and
\* the bytes it came with, which are none, appended; for comparison
plainJSONCaseIgnoringErrors(c) ==
    IF c.failed THEN <<>> ELSE IF c.quoted THEN appendJSONString(c.text) ELSE c.text

\* The case written with colour
colouredJSONCase(c) ==
    IF c.quoted THEN writeJSONString(c.text, TRUE, TRUE)
    ELSE c.paint \o c.text \o ansiReset

writeJSONValuePlainIgnoringErrors(v) == plainJSONCaseIgnoringErrors(writeJSONValueCase(v))

writeJSONValuePlain(v) == plainJSONCase(writeJSONValueCase(v))

writeJSONValue(v, color) ==
    IF ~color THEN writeJSONValuePlain(v)
    ELSE colouredJSONCase(writeJSONValueCase(v))

writeJSONLevelValue(lvl, color) ==
    (IF color
     THEN (CASE lvl = InfoLevel -> ansiBrightGreen
             [] lvl = WarnLevel -> ansiBrightYellow
             [] lvl \in {ErrorLevel, FatalLevel, PanicLevel} -> ansiBrightRed
             [] lvl = TraceLevel -> ansiBlue
             [] OTHER -> ansiFaint)
     ELSE <<>>)
        \o Quote(structuredLevel(lvl))
        \o (IF color THEN ansiReset ELSE <<>>)

writeJSONMessageValue(value, color) ==
    (IF color THEN ansiBold ELSE <<>>)
        \o appendJSONString(value)
        \o (IF color THEN ansiReset ELSE <<>>)

\* A pair handed to writePair: the key, the value and the jsonValueKind
Pair(key, value, kind) == [key |-> key, value |-> value, kind |-> kind]

\* writePair(key, value, kind) after its comma: the key, a colon, the value
writePair(p, lvl, colored) ==
    writeJSONKey(p.key, colored) \o <<58>>
        \o (IF p.kind = "level" THEN writeJSONLevelValue(lvl, colored)
            ELSE IF p.kind = "message" THEN writeJSONMessageValue(p.value, colored)
            ELSE writeJSONValue(p.value, colored))

\* The calls of writePair in order, a comma before every pair but the first
RECURSIVE writePairs(_, _, _, _)
writePairs(pairs, first, lvl, colored) ==
    IF pairs = <<>> THEN <<>>
    ELSE (IF first THEN <<>> ELSE <<44>>)
         \o writePair(Head(pairs), lvl, colored)
         \o writePairs(Tail(pairs), FALSE, lvl, colored)

\* the fast path: no colour and no field
writeStructuredFast(lvl, m, timestamp, includeTime, names) ==
    <<123>>
        \o (IF includeTime
            THEN appendFastStringField(TRUE, names.timePrefix, timestamp)
            ELSE <<>>)
        \o appendFastStringField(~includeTime, names.levelPrefix, structuredLevel(lvl))
        \o (IF m # <<>>
            THEN (IF needsQuote(m)
                  THEN appendQuotedField(FALSE, names.message, m)
                  ELSE appendFastStringField(FALSE, names.messagePrefix, m))
            ELSE <<>>)
        \o <<125>>

\* the general path: writePair for the time, the level, the message and
\* every field
writeStructuredGeneral(lvl, m, fields, timestamp, includeTime, names, colored) ==
    <<123>>
        \o writePairs((IF includeTime
                       THEN <<Pair(names.time, StringValue(timestamp), "default")>>
                       ELSE <<>>)
                      \o <<Pair(names.level, structuredLevel(lvl), "level")>>
                      \o (IF m # <<>> THEN <<Pair(names.message, m, "message")>> ELSE <<>>)
                      \o [i \in 1..Len(fields) |->
                             Pair(fields[i].key, fields[i].value, "default")],
                      TRUE, lvl, colored)
        \o <<125>>

writeStructured(lvl, m, fields, timestamp, includeTime, names, colorJSON, colorEnabled) ==
    LET colored == colorJSON /\ colorEnabled
    IN  IF ~colored /\ Len(fields) = 0
        THEN writeStructuredFast(lvl, m, timestamp, includeTime, names)
        ELSE writeStructuredGeneral(lvl, m, fields, timestamp, includeTime, names,
                                    colored)

\* strings.Join(parts, ".")
RECURSIVE JoinDot(_)
JoinDot(parts) ==
    IF parts = <<>> THEN <<>>
    ELSE IF Len(parts) = 1 THEN parts[1]
    ELSE parts[1] \o <<46>> \o JoinDot(Tail(parts))

joinAttrKey(groups, key) ==
    IF Len(groups) = 0 THEN key
    ELSE JoinDot(IF key # <<>> THEN Append(groups, key) ELSE groups)

\* slog.Attr: a key and a slog.Value, the value of a scalar kind or a group
Attr(k, v) == [kind |-> "attr", key |-> k, value |-> v]

\* slog.GroupValue(attrs...)
GroupValue(attrs) == [kind |-> "group", attrs |-> attrs]

appendGroup(groups, name) ==
    IF name = <<>> THEN groups ELSE Append(groups, name)

\* collectAttr(dst, attr, groups) and collectAttrs(dst, attrs, groups): the
\* fields appended to dst
RECURSIVE collectAttr(_, _)
RECURSIVE collectAttrs(_, _)
collectAttr(attr, groups) ==
    IF attr.value.kind = "group"
    THEN collectAttrs(attr.value.attrs,
                      IF attr.key # <<>> THEN appendGroup(groups, attr.key) ELSE groups)
    ELSE <<KV(joinAttrKey(groups, attr.key), attr.value)>>

collectAttrs(attrs, groups) ==
    IF attrs = <<>> THEN <<>>
    ELSE collectAttr(Head(attrs), groups) \o collectAttrs(Tail(attrs), groups)

\* collectKeyvals from the 0-based index i on, with `pair` pairs collected
\* (a keyval of type []slog.Attr is not among the inputs of the model)
RECURSIVE collectKeyvalsFrom(_, _, _, _)
collectKeyvalsFrom(keyvals, groups, i, pair) ==
    IF i >= Len(keyvals) THEN <<>>
    ELSE LET v == At(keyvals, i)
             paired == i + 1 < Len(keyvals)
             name == IF paired THEN Sprint(v) ELSE B("arg") \o FormatInt(pair)
             key == IF Len(groups) > 0 THEN joinAttrKey(groups, name) ELSE name
         IN  IF v.kind = "attr"
             THEN collectAttr(v, groups)
                  \o collectKeyvalsFrom(keyvals, groups, i + 1, pair)
             ELSE IF paired
             THEN <<KV(key, At(keyvals, i + 1))>>
                  \o collectKeyvalsFrom(keyvals, groups, i + 2, pair + 1)
             ELSE <<KV(key, v)>>
                  \o collectKeyvalsFrom(keyvals, groups, i + 1, pair + 1)

\* A collectKeyvals that puts what it collects before dst, for comparison
collectKeyvalsInFront(dst, keyvals, groups) ==
    collectKeyvalsFrom(keyvals, groups, 0, 0) \o dst

collectKeyvals(dst, keyvals, groups) ==
    dst \o collectKeyvalsFrom(keyvals, groups, 0, 0)

(***************************************************************************)
(* The adapter                                                             *)
(***************************************************************************)
\* A writer is "nil", "discard" (io.Discard), "buffer" or "tty".
isTerminal(w) == w = "tty"

isDiscardWriter(w) == w = "discard"

\* NewWithOptions with the NO_COLOR environment variable left unread.
NewWithOptionsIgnoringEnv(w, opts, noColorEnv) ==
    LET w1 == IF w = "nil" THEN "discard" ELSE w
        mode == IF opts.Mode # ModeStructured THEN ModeConsole ELSE opts.Mode
        timeFormat == IF opts.TimeFormat = <<>>
                      THEN (IF mode = ModeConsole THEN DTGTimeFormat ELSE RFC3339)
                      ELSE opts.TimeFormat
        noColor == opts.NoColor \/ ~isTerminal(w1)
    IN  [writer |-> w1,
         mode |-> mode,
         timeFormat |-> timeFormat,
         colorEnabled |-> ~noColor,
         colorJSONEnabled |-> opts.ColorJSON /\ ~noColor,
         disableTimestamp |-> opts.DisableTimestamp,
         minLevel |-> IF opts.MinLevel # <<>> THEN opts.MinLevel[1] ELSE TraceLevel,
         forcedLevel |-> <<>>,
         baseFields |-> <<>>,
         groups |-> <<>>,
         verbose |-> opts.VerboseFields,
         useTimeCache |-> ~opts.DisableTimestamp /\ isCacheableLayout(timeFormat),
         useUTC |-> opts.UTC,
         discard |-> isDiscardWriter(w1)]

\* NewWithOptions(w, opts), noColorEnv being os.Getenv("NO_COLOR") != ""
NewWithOptions(w, opts, noColorEnv) ==
    LET w1 == IF w = "nil" THEN "discard" ELSE w
        mode == IF opts.Mode # ModeStructured THEN ModeConsole ELSE opts.Mode
        timeFormat == IF opts.TimeFormat = <<>>
                      THEN (IF mode = ModeConsole THEN DTGTimeFormat ELSE RFC3339)
                      ELSE opts.TimeFormat
        noColor == opts.NoColor \/ ~isTerminal(w1) \/ noColorEnv
    IN  [writer |-> w1,
         mode |-> mode,
         timeFormat |-> timeFormat,
         colorEnabled |-> ~noColor,
         colorJSONEnabled |-> opts.ColorJSON /\ ~noColor,
         disableTimestamp |-> opts.DisableTimestamp,
         minLevel |-> IF opts.MinLevel # <<>> THEN opts.MinLevel[1] ELSE TraceLevel,
         forcedLevel |-> <<>>,
         baseFields |-> <<>>,
         groups |-> <<>>,
         verbose |-> opts.VerboseFields,
         useTimeCache |-> ~opts.DisableTimestamp /\ isCacheableLayout(timeFormat),
         useUTC |-> opts.UTC,
         discard |-> isDiscardWriter(w1)]

\* adapter.With(keyvals...)
With(a, keyvals) ==
    IF Len(keyvals) = 0 THEN a
    ELSE LET fields == collectKeyvals(<<>>, keyvals, <<>>)
         IN  IF Len(fields) = 0 THEN a
             ELSE [a EXCEPT !.baseFields = a.baseFields \o fields]

\* adapter.LogLevel(level)
LogLevel(a, lvl) ==
    IF lvl = NoLevel THEN [a EXCEPT !.forcedLevel = <<NoLevel>>]
    ELSE [a EXCEPT !.minLevel = lvl, !.forcedLevel = <<>>]

\* adapter.WithGroup(name)
WithGroup(a, name) ==
    IF name = <<>> THEN a
    ELSE [a EXCEPT !.groups = Append(a.groups, name)]

\* adapter.WithAttrs(attrs)
WithAttrs(a, attrs) ==
    IF Len(attrs) = 0 THEN a
    ELSE [a EXCEPT !.baseFields = a.baseFields \o collectAttrs(attrs, a.groups)]

\* shouldLog with > for >=, for comparison
shouldLogAbove(a, lvl) ==
    IF a.writer = "nil" THEN FALSE
    ELSE IF a.forcedLevel # <<>> /\ a.forcedLevel[1] = Disabled THEN FALSE
    ELSE LET effective == IF a.forcedLevel = <<>> THEN lvl
                          ELSE IF a.forcedLevel[1] = NoLevel THEN InfoLevel
                          ELSE a.forcedLevel[1]
         IN  IF effective = Disabled THEN FALSE
             ELSE effective > a.minLevel

shouldLog(a, lvl) ==
    IF a.writer = "nil" THEN FALSE
    ELSE IF a.forcedLevel # <<>> /\ a.forcedLevel[1] = Disabled THEN FALSE
    ELSE LET effective == IF a.forcedLevel = <<>> THEN lvl
                          ELSE IF a.forcedLevel[1] = NoLevel THEN InfoLevel
                          ELSE a.forcedLevel[1]
         IN  IF effective = Disabled THEN FALSE
             ELSE effective >= a.minLevel

\* timeCache.Current(), `published` being the instant whose formatting the
\* cell holds (the first caller's now, or the refresher's last tick)
Current(layout, utc, published) ==
    Format(layout, IF utc THEN UTC(published) ELSE published)

\* The fields logInternal hands to the writers
logFields(a, keyvals) ==
    LET base == IF Len(a.baseFields) > 0 THEN a.baseFields ELSE <<>>
    IN  IF Len(keyvals) > 0 THEN collectKeyvals(base, keyvals, a.groups) ELSE base

\* The timestamp logInternal hands to the writers ("" without a timestamp)
logTimestamp(a, now) ==
    IF a.disableTimestamp THEN <<>>
    ELSE IF a.useTimeCache THEN Current(a.timeFormat, a.useUTC, now)
    ELSE Format(a.timeFormat, IF a.useUTC THEN UTC(now) ELSE now)

\* logInternal: the buffers handed to a.writer.Write, in order
logInternal(a, lvl, m, keyvals, now) ==
    IF lvl = Disabled \/ ~shouldLog(a, lvl) \/ a.discard THEN <<>>
    ELSE LET fields == logFields(a, keyvals)
             includeTime == ~a.disableTimestamp
             timestamp == logTimestamp(a, now)
             buf == IF a.mode = ModeConsole
                    THEN writeConsole(lvl, m, fields, timestamp, includeTime,
                                      a.colorEnabled)
                    ELSE writeStructured(lvl, m, fields, timestamp, includeTime,
                                         IF a.verbose THEN verboseFieldNames
                                         ELSE shortFieldNames,
                                         a.colorJSONEnabled, a.colorEnabled)
         IN  <<buf \o <<10>>>>

(***************************************************************************)
(* The calls of the adapter and what they do to the sink and the process   *)
(***************************************************************************)
\* slog.Level
slogLevelDebug == -4
slogLevelInfo == 0
slogLevelWarn == 4
slogLevelError == 8

LevelFromSlog(l) ==
    IF l < slogLevelDebug THEN TraceLevel
    ELSE IF l < slogLevelInfo THEN DebugLevel
    ELSE IF l < slogLevelWarn THEN InfoLevel
    ELSE IF l < slogLevelError THEN WarnLevel
    ELSE IF l < slogLevelError + 4 THEN ErrorLevel
    ELSE FatalLevel

\* slog.Record
Record(l, m, attrs) == [Level |-> l, Message |-> m, Attrs |-> attrs]

\* adapter.Handle with the error of the sink's Write handed back to the caller.
HandleReturningWriteError(a, record, now, writeErr) ==
    IF ~shouldLog(a, LevelFromSlog(record.Level)) THEN [writes |-> <<>>, err |-> "nil"]
    ELSE LET bufs == logInternal(a, LevelFromSlog(record.Level), record.Message,
                                 record.Attrs, now)
         IN  [writes |-> bufs, err |-> IF bufs = <<>> THEN "nil" ELSE writeErr]

\* adapter.Handle(ctx, record): the buffers handed to the sink and the error
\* returned, writeErr being what the sink's Write returns
Handle(a, record, now, writeErr) ==
    IF ~shouldLog(a, LevelFromSlog(record.Level)) THEN [writes |-> <<>>, err |-> "nil"]
    ELSE [writes |-> logInternal(a, LevelFromSlog(record.Level), record.Message,
                                 record.Attrs, now),
          err |-> "nil"]

\* The effects of the Write calls of logInternal, each with the error the
\* sink returned for it
WriteEffects(bufs, writeErr) ==
    [i \in 1..Len(bufs) |-> [kind |-> "write", bytes |-> bufs[i], err |-> writeErr]]

\* adapter.Fatal(msg, keyvals...): logInternal, then os.Exit(1)
Fatal(a, m, keyvals, now, writeErr) ==
    WriteEffects(logInternal(a, FatalLevel, m, keyvals, now), writeErr)
    \o <<[kind |-> "exit", code |-> 1]>>

\* adapter.Panic(msg, keyvals...): logInternal, then panic(msg)
Panic(a, m, keyvals, now, writeErr) ==
    WriteEffects(logInternal(a, PanicLevel, m, keyvals, now), writeErr)
    \o <<[kind |-> "panic", value |-> m]>>

(***************************************************************************)
(* The onelogger adapter (adapters/onelogger): threshold, Fatal and Panic. *)
(* The line onelog writes for an entry is onelog's; an entry is kept as    *)
(* its onelog level and message.                                           *)
(***************************************************************************)
\* onelogger.NewWithOptions(w, opts): ExitFn is that of onelog.New unless
\* opts.ExitFunc is set
oneloggerNewWithOptions(opts) ==
    [logger |-> "onelog",
     exitFn |-> IF opts.ExitFunc # "nil" THEN opts.ExitFunc ELSE "os.Exit",
     minLevel |-> IF opts.MinLevel # <<>> THEN opts.MinLevel[1] ELSE TraceLevel,
     forcedLevel |-> <<>>]

\* onelogger adapter.LogLevel(level)
oneloggerLogLevel(a, lvl) ==
    IF lvl \in {NoLevel, Disabled} THEN [a EXCEPT !.forcedLevel = <<lvl>>]
    ELSE [a EXCEPT !.minLevel = lvl, !.forcedLevel = <<>>]

\* onelogger adapter.shouldLog(level)
oneloggerShouldLog(a, lvl) ==
    IF a.logger = "nil" THEN FALSE
    ELSE IF a.forcedLevel # <<>> /\ a.forcedLevel[1] = Disabled THEN FALSE
    ELSE LET effective == IF a.forcedLevel = <<>> THEN lvl
                          ELSE IF a.forcedLevel[1] = NoLevel THEN InfoLevel
                          ELSE a.forcedLevel[1]
         IN  IF effective = Disabled THEN FALSE
             ELSE effective >= a.minLevel

\* newChainEntry(level, msg): the onelog entry for the level
newChainEntry(lvl, m) ==
    [level |-> IF lvl \in {TraceLevel, DebugLevel} THEN "debug"
               ELSE IF lvl = WarnLevel THEN "warn"
               ELSE IF lvl \in {ErrorLevel, PanicLevel} THEN "error"
               ELSE IF lvl = FatalLevel THEN "fatal"
               ELSE "info",
     msg |-> m]

\* onelogger adapter.log(level, msg, keyvals): entry.Write() when shouldLog
oneloggerLog(a, lvl, m, writeErr) ==
    IF ~oneloggerShouldLog(a, lvl) THEN <<>>
    ELSE <<[kind |-> "write", bytes |-> newChainEntry(lvl, m), err |-> writeErr]>>

\* onelogger adapter.logFatal(msg, keyvals)
oneloggerLogFatal(a, m, writeErr) ==
    IF ~oneloggerShouldLog(a, FatalLevel) THEN <<>>
    ELSE <<[kind |-> "write", bytes |-> newChainEntry(FatalLevel, m), err |-> writeErr]>>
         \o (IF a.logger # "nil" /\ a.exitFn # "nil"
             THEN <<[kind |-> "exit", code |-> 1]>> ELSE <<>>)

\* onelogger adapter.Panic(msg, keyvals...): a.log(PanicLevel, ...), panic(msg)
oneloggerPanic(a, m, writeErr) ==
    oneloggerLog(a, PanicLevel, m, writeErr) \o <<[kind |-> "panic", value |-> m]>>

\* How a call that did `done` ends
EndOf(done) ==
    IF done # <<>> /\ done[Len(done)].kind \in {"exit", "panic"}
    THEN done[Len(done)].kind ELSE "return"

\* onelogger adapter.Logp(level, msg, keyvals...)
oneloggerLogp(a, lvl, m, writeErr) ==
    IF lvl \in {TraceLevel, DebugLevel, InfoLevel, WarnLevel, ErrorLevel}
    THEN oneloggerLog(a, lvl, m, writeErr)
    ELSE IF lvl = FatalLevel THEN oneloggerLogFatal(a, m, writeErr)
    ELSE IF lvl = PanicLevel THEN oneloggerPanic(a, m, writeErr)
    ELSE IF lvl = NoLevel THEN oneloggerLog(a, InfoLevel, m, writeErr)
    ELSE IF lvl = Disabled THEN <<>>
    ELSE oneloggerLog(a, InfoLevel, m, writeErr)

(***************************************************************************)
(* The zaplogger adapter (adapters/zaplogger): Logp and the methods it     *)
(* calls. A zap.Logger writes the entry it is given; its Fatal then calls  *)
(* os.Exit(1) and its Panic then panics with the message. An entry is kept *)
(* as its zap method and message.                                          *)
(***************************************************************************)
\* zaplogger.NewWithOptions(w, opts): no threshold of its own
zaploggerNewWithOptions == [logger |-> "zap", minLevel |-> <<>>]

\* portLevelToZap(level): zapcore numbers Debug -1, Info 0, Warn 1, Error 2,
\* Panic 4, Fatal 5, Invalid 6
portLevelToZap(lvl) ==
    IF lvl \in {TraceLevel, DebugLevel, NoLevel} THEN -1
    ELSE IF lvl = InfoLevel THEN 0
    ELSE IF lvl = WarnLevel THEN 1
    ELSE IF lvl = ErrorLevel THEN 2
    ELSE IF lvl = FatalLevel THEN 5
    ELSE IF lvl = PanicLevel THEN 4
    ELSE IF lvl = Disabled THEN 6
    ELSE 0

\* zaplogger adapter.shouldLog(level)
zaploggerShouldLog(a, lvl) ==
    IF a.logger = "nil" THEN FALSE
    ELSE IF a.minLevel = <<>> THEN TRUE
    ELSE portLevelToZap(lvl) >= a.minLevel[1]

\* zaplogger adapter.Debug / Info / Warn / Error: the entry goes to the
\* zap.Logger method of that name when shouldLog(level)
zaploggerLog(a, lvl, method, m, writeErr) ==
    IF a.logger = "nil" \/ ~zaploggerShouldLog(a, lvl) THEN <<>>
    ELSE <<[kind |-> "write", bytes |-> [level |-> method, msg |-> m], err |-> writeErr]>>

\* zaplogger adapter.Fatal(msg, keyvals...): a.logger.Fatal, no shouldLog
zaploggerFatal(a, m, writeErr) ==
    IF a.logger = "nil" THEN <<>>
    ELSE <<[kind |-> "write", bytes |-> [level |-> "fatal", msg |-> m], err |-> writeErr],
           [kind |-> "exit", code |-> 1]>>

\* zaplogger adapter.Panic(msg, keyvals...): a.logger.Panic, no shouldLog
zaploggerPanic(a, m, writeErr) ==
    IF a.logger = "nil" THEN <<[kind |-> "panic", value |-> m]>>
    ELSE <<[kind |-> "write", bytes |-> [level |-> "panic", msg |-> m], err |-> writeErr],
           [kind |-> "panic", value |-> m]>>

\* zaplogger adapter.Logp(level, msg, keyvals...)
zaploggerLogp(a, lvl, m, writeErr) ==
    IF lvl \in {TraceLevel, DebugLevel} THEN zaploggerLog(a, DebugLevel, "debug", m, writeErr)
    ELSE IF lvl = InfoLevel THEN zaploggerLog(a, InfoLevel, "info", m, writeErr)
    ELSE IF lvl = WarnLevel THEN zaploggerLog(a, WarnLevel, "warn", m, writeErr)
    ELSE IF lvl = ErrorLevel THEN zaploggerLog(a, ErrorLevel, "error", m, writeErr)
    ELSE IF lvl = FatalLevel THEN zaploggerFatal(a, m, writeErr)
    ELSE IF lvl = PanicLevel THEN zaploggerPanic(a, m, writeErr)
    ELSE IF lvl = NoLevel THEN zaploggerLog(a, DebugLevel, "debug", m, writeErr)
    ELSE IF lvl = Disabled THEN <<>>
    ELSE zaploggerLog(a, InfoLevel, "info", m, writeErr)

\* psl adapter.Logp(level, msg): logInternal and nothing after it
pslLogp(a, lvl, m, now, writeErr) ==
    WriteEffects(logInternal(a, lvl, [i \in 1..Len(m) |-> ByteOf(m[i])], <<>>, now), writeErr)

(***************************************************************************)
(* Slices and the derivations that copy them                               *)
(*                                                                         *)
(* A slice is (arr, len): arr the index of its backing array in the heap,  *)
(* 0 for a nil slice; its capacity is the length of that array. An adapter *)
(* on the heap is the adapter record with baseFields and groups as slices. *)
(***************************************************************************)
nilSlice == [arr |-> 0, len |-> 0]

zeroElement == [kind |-> "zero"]

capOf(h, s) == IF s.arr = 0 THEN 0 ELSE Len(h[s.arr])

elementsOf(h, s) == IF s.arr = 0 THEN <<>> ELSE SubSeq(h[s.arr], 1, s.len)

\* runtime.growslice for fewer than 256 elements, size classes left out
growCap(oldCap, needed) == IF needed > 2 * oldCap THEN needed ELSE 2 * oldCap

\* append(s, xs...): in place when the capacity suffices, else into a new array
append(h, s, xs) ==
    LET needed == s.len + Len(xs)
    IN  IF Len(xs) = 0 THEN [h |-> h, s |-> s]
        ELSE IF needed <= capOf(h, s)
        THEN [h |-> [h EXCEPT ![s.arr] =
                        [i \in 1..Len(@) |->
                            IF i > s.len /\ i <= needed THEN xs[i - s.len] ELSE @[i]]],
              s |-> [arr |-> s.arr, len |-> needed]]
        ELSE LET old == elementsOf(h, s)
                 newCap == growCap(capOf(h, s), needed)
             IN  [h |-> Append(h, [i \in 1..newCap |->
                                      IF i <= s.len THEN old[i]
                                      ELSE IF i <= needed THEN xs[i - s.len]
                                      ELSE zeroElement]),
                  s |-> [arr |-> Len(h) + 1, len |-> needed]]

\* cloneFields returning src[:0], the array of its argument, for comparison
reuseFields(h, s) == [h |-> h, s |-> [arr |-> s.arr, len |-> 0]]

\* cloneFields(src): nil for an empty slice, else make([]kv, len(src)) and copy
cloneFields(h, s) ==
    IF s.len = 0 THEN [h |-> h, s |-> nilSlice]
    ELSE [h |-> Append(h, elementsOf(h, s)), s |-> [arr |-> Len(h) + 1, len |-> s.len]]

\* cloneStrings(src)
cloneStrings(h, s) ==
    IF s.len = 0 THEN [h |-> h, s |-> nilSlice]
    ELSE [h |-> Append(h, elementsOf(h, s)), s |-> [arr |-> Len(h) + 1, len |-> s.len]]

\* The adapter with its slices read out of the heap
adapterView(h, a) ==
    [a EXCEPT !.baseFields = elementsOf(h, a.baseFields),
              !.groups = elementsOf(h, a.groups)]

\* NewWithOptions: baseFields and groups are nil
adapterNew(w, opts, noColorEnv) ==
    [NewWithOptions(w, opts, noColorEnv) EXCEPT !.baseFields = nilSlice,
                                                !.groups = nilSlice]

\* adapter.LogLevel(level): the level fields, cloneFields(a.baseFields),
\* cloneStrings(a.groups)
adapterLogLevel(h, a, lvl) ==
    LET f == cloneFields(h, a.baseFields)
        g == cloneStrings(f.h, a.groups)
    IN  [h |-> g.h,
         a |-> [LogLevel(a, lvl) EXCEPT !.baseFields = f.s, !.groups = g.s]]

\* adapter.With(keyvals...): append(cloneFields(a.baseFields), fields...),
\* cloneStrings(a.groups)
adapterWith(h, a, keyvals) ==
    IF Len(keyvals) = 0 THEN [h |-> h, a |-> a]
    ELSE LET fields == collectKeyvals(<<>>, keyvals, <<>>)
         IN  IF Len(fields) = 0 THEN [h |-> h, a |-> a]
             ELSE LET f == cloneFields(h, a.baseFields)
                      combined == append(f.h, f.s, fields)
                      g == cloneStrings(combined.h, a.groups)
                  IN  [h |-> g.h,
                       a |-> [a EXCEPT !.baseFields = combined.s, !.groups = g.s]]

\* adapter.WithGroup(name): append(cloneStrings(a.groups), name),
\* cloneFields(a.baseFields)
adapterWithGroup(h, a, name) ==
    IF name = <<>> THEN [h |-> h, a |-> a]
    ELSE LET g == cloneStrings(h, a.groups)
             groups == append(g.h, g.s, <<name>>)
             f == cloneFields(groups.h, a.baseFields)
         IN  [h |-> f.h,
              a |-> [a EXCEPT !.baseFields = f.s, !.groups = groups.s]]

\* adapter.WithAttrs(attrs): collectAttrs(nil, attrs, a.groups),
\* append(cloneFields(a.baseFields), additional...), cloneStrings(a.groups)
adapterWithAttrs(h, a, attrs) ==
    IF Len(attrs) = 0 THEN [h |-> h, a |-> a]
    ELSE LET additional == collectAttrs(attrs, elementsOf(h, a.groups))
             f == cloneFields(h, a.baseFields)
             combined == append(f.h, f.s, additional)
             g == cloneStrings(combined.h, a.groups)
         IN  [h |-> g.h,
              a |-> [a EXCEPT !.baseFields = combined.s, !.groups = g.s]]

(***************************************************************************)
(* The scratch buffers of logInternal (scratchPool)                        *)
(*                                                                         *)
(* A byte array is its capacity and the bytes stored in it so far; a byte  *)
(* slice is (arr, len). The capacities are scaled down: scratchCap stands  *)
(* for the 256 of make([]byte, 0, 256), keepCap for the 8192 above which a *)
(* grown buffer is not kept.                                               *)
(***************************************************************************)
scratchCap == 4

keepCap == 8

\* The same statements with the Put before the Write, for comparison
logInternalStepsPutFirst == <<"get", "format", "newline", "reset", "put", "write">>

\* The statements of logInternal from scratchPool.Get() on, in program order
logInternalSteps == <<"get", "format", "newline", "write", "reset", "put">>

\* make([]byte, 0, n)
makeBytes(as, n) == Append(as, [cap |-> n, data |-> <<>>])

\* append(buf, bytes...) on byte slices
appendBytes(as, buf, bytes) ==
    LET needed == buf.len + Len(bytes)
        a == as[buf.arr]
    IN  IF needed <= a.cap
        THEN [as |-> [as EXCEPT ![buf.arr].data =
                         SubSeq(a.data, 1, buf.len) \o bytes
                         \o SubSeq(a.data, needed + 1, Len(a.data))],
              buf |-> [arr |-> buf.arr, len |-> needed]]
        ELSE [as |-> Append(as, [cap |-> growCap(a.cap, needed),
                                 data |-> SubSeq(a.data, 1, buf.len) \o bytes]),
              buf |-> [arr |-> Len(as) + 1, len |-> needed]]

\* The bytes of the slice buf
bytesOf(as, buf) == SubSeq(as[buf.arr].data, 1, buf.len)

(***************************************************************************)
(* The timestamp cache (timeCache) and its refresh goroutine               *)
(*                                                                         *)
(* The clock counts ticks; Second of them make time.Second, so that a      *)
(* reading can fall between two whole seconds.                             *)
(***************************************************************************)
Second == 2

NanosPerTick == 1000000000 \div Second

\* time.Now() when the clock reads t: the instant t ticks after
\* 2026-11-05 14:03:09 +01:00
ClockInstant(t) ==
    [year |-> 2026, month |-> 11, day |-> 5, hour |-> 14, minute |-> 3,
     second |-> 9 + (t \div Second), offset |-> 60,
     nano |-> (t % Second) * NanosPerTick]

\* &timeCache{layout: timeFormat, utc: opts.UTC}: once not yet run, value nil
\* (<<>>), no goroutine. A stored value is the string, with the clock reading it
\* was formatted from.
newTimeCache(layout, utc) ==
    [layout |-> layout, utc |-> utc, once |-> "new", value |-> <<>>,
     refreshers |-> <<>>]

\* c.value.Store(now.Format(c.layout)) with now the instant of clock reading t
StoreFormatted(c, t) ==
    [c EXCEPT !.value = <<[text |-> Current(c.layout, c.utc, ClockInstant(t)),
                             formed |-> t]>>]

\* The once body without its last statement, for comparison
goNothing(c) == c

\* go c.refresh(): one more goroutine, which has not created its ticker yet
goRefresh(c) ==
    [c EXCEPT !.refreshers = Append(@, [pc |-> "spawned", next |-> 0])]

\* A once.Do that lets a caller through while another runs the body, for
\* comparison
onceDoReturnsEarly(once) == FALSE

\* sync.Once.Do: a caller that finds the body running waits for it to return
onceDoWaits(once) == once = "running"

\* if a.useTimeCache && a.timeCache != nil
usesTimeCache(a) == a.useTimeCache /\ a.cache # 0

(***************************************************************************)
(* Lines handed to the classifier                                          *)
(***************************************************************************)
toUpperASCII(b) ==
    IF \E i \in 1..26 : LowerLetters[i] = b
    THEN UpperLetters[CHOOSE i \in 1..26 : LowerLetters[i] = b]
    ELSE b

UpperCase(s) == [i \in 1..Len(s) |-> toUpperASCII(s[i])]

Capitalized(s) == [i \in 1..Len(s) |-> IF i = 1 THEN toUpperASCII(s[i]) ELSE s[i]]

\* The recognised severity names, with the severity the documentation gives each.
TokenNames ==
    {"trace", "trc", "debug", "dbg", "info", "inf", "information", "warn",
     "warning", "wrn", "error", "err", "fatal", "crit", "critical", "panic", "alert"}

SeverityOf(name) ==
    CASE name \in {"trace", "trc"} -> TraceLevel
      [] name \in {"debug", "dbg"} -> DebugLevel
      [] name \in {"info", "inf", "information"} -> InfoLevel
      [] name \in {"warn", "warning", "wrn"} -> WarnLevel
      [] name \in {"error", "err"} -> ErrorLevel
      [] name \in {"fatal", "crit", "critical"} -> FatalLevel
      [] name \in {"panic", "alert"} -> PanicLevel

\* Each recognised name in lower case, upper case and capitalised.
CasedTokens(name) == {Chars(name), UpperCase(Chars(name)), Capitalized(Chars(name))}

\* Names that are no severity token.
OtherTokens == {Chars("note"), Chars("errors"), Chars("informed"), <<>>}

\* The delimiter styles of the documentation: [T], T:, T-, T|, T followed by
\* white space.
Styles == {"bracket", "colon", "hyphen", "pipe", "space"}

Wrap(style, tok) ==
    CASE style = "bracket" -> <<"[">> \o tok \o <<"]">>
      [] style = "colon" -> tok \o <<":">>
      [] style = "hyphen" -> tok \o <<"-">>
      [] style = "pipe" -> tok \o <<"|">>
      [] style = "space" -> tok \o <<" ">>

Messages ==
    {Chars("ready"), Chars("an error occurred"), Chars("slow path"),
     Chars("-x"), Chars(":y"), Chars("|z"), Chars("a b "), Chars(" lead"),
     Chars("disk: full"), Chars("[warn] nested"), Chars("e")}

StyledLines ==
    {Wrap(d, t) \o <<" ">> \o m :
        d \in Styles,
        t \in (UNION {CasedTokens(n) : n \in TokenNames}) \cup OtherTokens,
        m \in Messages}

TLSLines ==
    {Chars("http: TLS handshake error from 1.2.3.4: remote error: tls: bad certificate"),
     Chars("http: TLS handshake error"),
     Chars("http: TLS handshake error: EOF"),
     Chars("http: TLS handshake error :: x"),
     Chars("http: TLS handshake errors"),
     Chars("  http: TLS handshake error from a "),
     Chars("HTTP: TLS handshake error from b"),
     Chars("[http: TLS handshake error] c"),
     Chars("x http: TLS handshake error: d")}

OtherLines ==
    {<<>>, Chars(" "), Chars(" \t\r"), Chars("\r"),
     Chars("plain message without level metadata"),
     Chars("  padded plain  "),
     Chars("request failed with unexpected ERROR code 42"),
     Chars("request failed with error code 42"),
     Chars("errorhandlerinitialized"), Chars("xerror"), Chars("xerror:"),
     Chars("xerror : "), Chars(" xError "), Chars("the terror: begins"),
     Chars("erro"), Chars("err0r error"),
     Chars("INFO"), Chars("[INFO]"), Chars("INFO:"), Chars("warn - slow path"),
     Chars("ERROR critical failure"), Chars("[DEBUG] details"),
     Chars("INFO: an error occurred"),
     Chars("[]"), Chars("[] error"), Chars("["), Chars("[x"), Chars("]"),
     Chars("[note] an error"), Chars("[ warn ] spaced"), Chars("[a] err: b"),
     Chars(". info: dotted"), Chars(", warn | piped"), Chars("(debug) paren"),
     Chars("<crit>: angled"), Chars(": info: colon first"), Chars("- err: hyphen first"),
     Chars("no level: here"), Chars("key=value | other"), Chars("a-b error c"),
     Chars("\"panic\": quoted"), Chars("'alert' single"), Chars("info.: x"),
     Chars("info\tTabbed"), Chars("info\t:\t-| mixed"), Chars("info::double")}

ClassifierInputs == StyledLines \cup TLSLines \cup OtherLines

(***************************************************************************)
(* The classifier as a state machine: one call of classifyLogLine          *)
(***************************************************************************)
\* Options{}
zeroOptions ==
    [Mode |-> ModeConsole, TimeFormat |-> <<>>, DisableTimestamp |-> FALSE,
     NoColor |-> FALSE, ColorJSON |-> FALSE, MinLevel |-> <<>>,
     VerboseFields |-> FALSE, UTC |-> FALSE]

epoch ==
    [year |-> 1970, month |-> 1, day |-> 1, hour |-> 0, minute |-> 0, second |-> 0,
     offset |-> 0]

NoCall == [made |-> FALSE, level |-> NoLevel, msg |-> <<>>, keyvals |-> <<>>, now |-> epoch]

EncoderIdle ==
    /\ config = [w |-> "nil", opts |-> zeroOptions, noColorEnv |-> FALSE]
    /\ logger = NewWithOptions("nil", zeroOptions, FALSE)
    /\ call = NoCall
    /\ writes = <<>>

NoOutcome == [how |-> "none", err |-> "none"]

oneloggerZeroOptions == [ExitFunc |-> "nil", MinLevel |-> <<>>]

SinkIdle ==
    /\ sinkErr = "nil"
    /\ effects = <<>>
    /\ outcome = NoOutcome
    /\ one = oneloggerNewWithOptions(oneloggerZeroOptions)

NoTimestamp == [text |-> <<>>, formed |-> 0, at |-> 0, from |-> "none"]

Threads == {"t1", "t2"}

TimeCacheIdle ==
    /\ clock = 0
    /\ caches = <<>>
    /\ tadapters = <<>>
    /\ threads = [th \in Threads |-> [pc |-> "idle", adapter |-> 0, ts |-> NoTimestamp]]

LevelsIdle == asked = <<>>

NoSaid == [made |-> FALSE, logger |-> 0, level |-> NoLevel, line |-> <<>>]

DeriveIdle ==
    /\ heap = <<>>
    /\ loggers = <<>>
    /\ made = <<>>
    /\ said = NoSaid

IdleWorker == [pc |-> 0, sc |-> 0, buf |-> nilSlice, calls |-> 0, written |-> FALSE]

PoolIdle ==
    /\ pool = {}
    /\ scratches = <<>>
    /\ arrays = <<>>
    /\ workers = [th \in Threads |-> IdleWorker]
    /\ sinks = [th \in Threads |-> <<>>]

NoStored == [called |-> FALSE, ctx |-> 0, lg |-> "nil", panicked |-> FALSE, out |-> 0, before |-> 0, after |-> 0]

NoFetched == [called |-> FALSE, ctx |-> 0, lg |-> "nil"]

ContextIdle ==
    /\ ctxs = <<>>
    /\ stored = NoStored
    /\ fetched = NoFetched
    /\ heard = <<>>
    /\ ctxEnd = "run"

NoProbe == [made |-> FALSE, level |-> NoLevel, byOrigin |-> FALSE, byOffspring |-> FALSE]

DropIdle ==
    /\ origin = [kind |-> "none"]
    /\ offspring = <<>>
    /\ probed = NoProbe

LaterIdle == TimeCacheIdle /\ LevelsIdle /\ DeriveIdle /\ PoolIdle /\ ContextIdle /\ DropIdle

ExtraIdle == SinkIdle /\ LaterIdle

BridgeIdle ==
    /\ payload = <<>>
    /\ target = "nil"
    /\ pinned = <<>>
    /\ wpc = "idle"
    /\ entries = <<>>
    /\ ret = <<0, "nil">>

InitClassify ==
    /\ raw \in ClassifierInputs
    /\ pc = "input"
    /\ level = NoLevel
    /\ msg = <<>>
    /\ rule = -1
    /\ slicesOk = TRUE
    /\ BridgeIdle
    /\ EncoderIdle
    /\ ExtraIdle

Classify ==
    /\ pc = "input"
    /\ LET r == classifyLogLine(raw)
       IN  /\ level' = r.level
           /\ msg' = r.msg
           /\ rule' = r.rule
           /\ slicesOk' = r.ok
    /\ pc' = "done"
    /\ UNCHANGED <<raw, bvars, evars, xvars>>

NextClassify == Classify

SpecClassify == InitClassify /\ [][NextClassify]_vars

(***************************************************************************)
(* The bridge as a state machine: one Write of a payload                   *)
(***************************************************************************)
MaxLines == 3

BridgeLines ==
    {<<>>, Chars("  "), Chars("INFO: ready"), Chars("[WARN] be careful\r"),
     Chars("INFO:"), Chars(" plain message ")}

RECURSIVE JoinLines(_)
JoinLines(ls) ==
    IF ls = <<>> THEN <<>>
    ELSE IF Len(ls) = 1 THEN ls[1]
    ELSE ls[1] \o <<"\n">> \o JoinLines(Tail(ls))

\* Up to MaxLines lines joined by "\n", with or without a final "\n".
Payloads ==
    UNION {{JoinLines(ls) \o end : ls \in [1..k -> BridgeLines], end \in {<<>>, <<"\n">>}}
           : k \in 0..MaxLines}

ClassifierIdle ==
    /\ raw = <<>>
    /\ pc = "idle"
    /\ level = NoLevel
    /\ msg = <<>>
    /\ rule = -1
    /\ slicesOk = TRUE

InitBridge ==
    /\ payload \in Payloads
    /\ target \in {"nil", "rec"}
    /\ pinned \in {<<>>, <<ErrorLevel>>}
    /\ wpc = "input"
    /\ entries = <<>>
    /\ ret = <<-1, "unset">>
    /\ ClassifierIdle
    /\ EncoderIdle
    /\ ExtraIdle

\* WriteToLogger(logger, p)
WriteToLogger ==
    /\ wpc = "input"
    /\ pinned = <<>>
    /\ IF Len(payload) = 0
       THEN ret' = <<0, "nil">> /\ entries' = entries
       ELSE IF target = "nil"
       THEN ret' = <<Len(payload), "nil">> /\ entries' = entries
       ELSE /\ entries' = entries \o writeBytesToLogger(payload, <<>>)
            /\ ret' = <<Len(payload), "nil">>
    /\ wpc' = "done"
    /\ UNCHANGED <<payload, target, pinned, cvars, evars, xvars>>

\* levelPinnedWriter.Write(p), the writer LogLoggerWithLevel gives log.New
\* (a nil logger is replaced by the no-op logger, which records nothing).
PinnedWrite ==
    /\ wpc = "input"
    /\ pinned # <<>>
    /\ IF Len(payload) = 0
       THEN ret' = <<0, "nil">> /\ entries' = entries
       ELSE IF target = "nil"
       THEN ret' = <<Len(payload), "nil">> /\ entries' = entries
       ELSE /\ entries' = entries \o writeBytesToLogger(payload, pinned)
            /\ ret' = <<Len(payload), "nil">>
    /\ wpc' = "done"
    /\ UNCHANGED <<payload, target, pinned, cvars, evars, xvars>>

NextBridge == WriteToLogger \/ PinnedWrite

SpecBridge == InitBridge /\ [][NextBridge]_vars

(***************************************************************************)
(* The encoder as a state machine: an adapter built by NewWithOptions,     *)
(* derived with With, and logged to                                        *)
(***************************************************************************)
MaxBaseFields == 1

Writers == {"buffer", "tty"}

\* A layout whose literal text holds double quotes
quotedClockLayout == B("\"15:04\"")

TimeFormats == {<<>>, quotedClockLayout}

\* The time format is left empty where the timestamp is disabled: it is
\* then never read.
OptionsSet ==
    {o \in [Mode : {ModeConsole, ModeStructured},
            TimeFormat : TimeFormats,
            DisableTimestamp : BOOLEAN,
            NoColor : BOOLEAN,
            ColorJSON : BOOLEAN,
            MinLevel : {<<>>},
            VerboseFields : BOOLEAN,
            UTC : {FALSE}] :
        o.DisableTimestamp => o.TimeFormat = <<>>}

Instants ==
    {[year |-> 2026, month |-> 11, day |-> 5, hour |-> 14, minute |-> 3, second |-> 9,
      offset |-> 60]}

escapeByte == 27

redText == <<escapeByte>> \o B("[31mred")

EncoderMessages ==
    {<<>>,
     B("ready"),
     B("hello world"),
     B("a\"b\\c\nd\te") \o <<0>>,
     B("{\"evil\":1}"),
     B("caf") \o <<195, 169>>,
     B("bad") \o <<255>>,
     redText}

EncoderKeyvals ==
    {<<>>,
     <<StringValue(B("k")), StringValue(B("v"))>>,
     <<StringValue(B("n")), IntValue(2147483647), StringValue(B("ok")), BoolValue(TRUE),
       StringValue(B("none")), NilValue>>,
     <<StringValue(redText), StringValue(redText \o B(" \"q\""))>>,
     <<StringValue(B("raw")), BytesValue(<<255, escapeByte>>)>>,
     <<StringValue(B("err")), ErrorValue(B("boom failed"))>>,
     <<StringValue(B("two\nkeys")), StringValue(B("two\nvalues"))>>,
     <<StringValue(B("odd"))>>}

WithKeyvals == {<<StringValue(B("svc")), StringValue(B("api"))>>}

ClassifierAndBridgeIdle ==
    /\ ClassifierIdle
    /\ BridgeIdle

InitEncode ==
    /\ config \in [w : Writers, opts : OptionsSet, noColorEnv : BOOLEAN]
    /\ logger = NewWithOptions(config.w, config.opts, config.noColorEnv)
    /\ call = NoCall
    /\ writes = <<>>
    /\ ClassifierAndBridgeIdle
    /\ ExtraIdle

\* logger = logger.With(keyvals...), before the logging call
DeriveWith ==
    /\ ~call.made
    /\ Len(logger.baseFields) < MaxBaseFields
    /\ \E keyvals \in WithKeyvals : logger' = With(logger, keyvals)
    /\ call' = NoCall
    /\ writes' = <<>>
    /\ UNCHANGED <<config, cvars, bvars, xvars>>

\* logger.Logp(lvl, m, keyvals...) with the clock at now. A run holds one
\* logging call: the adapter is a value and logInternal leaves nothing behind
\* that a later call reads.
Logp ==
    /\ ~call.made
    /\ \E lvl \in Levels, m \in EncoderMessages, keyvals \in EncoderKeyvals,
          now \in Instants :
          /\ call' = [made |-> TRUE, level |-> lvl, msg |-> m, keyvals |-> keyvals,
                      now |-> now]
          /\ writes' = logInternal(logger, lvl, m, keyvals, now)
    /\ UNCHANGED <<config, logger, cvars, bvars, xvars>>

NextEncode == DeriveWith \/ Logp

SpecEncode == InitEncode /\ [][NextEncode]_vars

(***************************************************************************)
(* The encoder on field values of every kind: one call of Logp on an       *)
(* adapter of any mode, colouring, key names and timestamp setting         *)
(***************************************************************************)
RenderOptions ==
    {o \in [Mode : {ModeConsole, ModeStructured},
            TimeFormat : TimeFormats,
            DisableTimestamp : BOOLEAN,
            NoColor : BOOLEAN,
            ColorJSON : BOOLEAN,
            MinLevel : {<<>>},
            VerboseFields : BOOLEAN,
            UTC : {FALSE}] :
        o.DisableTimestamp => o.TimeFormat = <<>>}

RenderMessages == {<<>>, B("ready"), B("say \"hi\"")}

\* time.Date(2026, 11, 5, 13, 3, 9, 500000000, time.UTC)
fieldInstant ==
    [year |-> 2026, month |-> 11, day |-> 5, hour |-> 13, minute |-> 3, second |-> 9,
     nano |-> 500000000, offset |-> 0, zone |-> B("UTC")]

\* make(chan int): fmt prints its address, json.Marshal refuses it
chanValue ==
    OpaqueValue(B("0xc000012345"), MarshalError(B("json: unsupported type: chan int")))

\* struct{ X, Y int }{1, 2}
pointValue == OpaqueValue(B("{1 2}"), Marshaled(B("{\"X\":1,\"Y\":2}")))

\* A value whose MarshalJSON returns an error
failingMarshaler == MarshalerValue(B("{}"), MarshalError(B("boom")))

RenderKeyvals ==
    {<<>>,
     <<StringValue(B("foo")), StringValue(B("bar")),
       StringValue(B("greeting")), StringValue(B("hello world"))>>,
     <<StringValue(B("at")), TimeValue(fieldInstant)>>,
     <<StringValue(B("n")), NumberValue(B("12.5"))>>,
     <<StringValue(B("raw")), BytesValue(B("hi")), StringValue(B("none")), NilValue>>,
     <<StringValue(B("ch")), chanValue, StringValue(B("after")), IntValue(7)>>,
     <<StringValue(B("pt")), pointValue, StringValue(B("ok")), BoolValue(TRUE)>>,
     <<StringValue(B("m")), failingMarshaler, StringValue(B("e")),
       ErrorValue(B("disk full"))>>}

InitRender ==
    /\ config \in [w : Writers, opts : RenderOptions, noColorEnv : {FALSE}]
    /\ logger = NewWithOptions(config.w, config.opts, config.noColorEnv)
    /\ call = NoCall
    /\ writes = <<>>
    /\ ClassifierAndBridgeIdle
    /\ ExtraIdle

\* logger.Logp(lvl, m, keyvals...) with the clock at now
RenderLogp ==
    /\ ~call.made
    /\ \E lvl \in Levels, m \in RenderMessages, keyvals \in RenderKeyvals,
          now \in Instants :
          /\ call' = [made |-> TRUE, level |-> lvl, msg |-> m, keyvals |-> keyvals,
                      now |-> now]
          /\ writes' = logInternal(logger, lvl, m, keyvals, now)
    /\ UNCHANGED <<config, logger, cvars, bvars, xvars>>

NextRender == RenderLogp

SpecRender == InitRender /\ [][NextRender]_vars

(***************************************************************************)
(* The sink and the process: one call of Logp or Handle on an adapter      *)
(* whose sink fails or not                                                 *)
(***************************************************************************)
SinkErrors == {"nil", "EIO"}

SinkOptions ==
    {[zeroOptions EXCEPT !.Mode = mode, !.DisableTimestamp = TRUE, !.MinLevel = min] :
        mode \in {ModeConsole, ModeStructured},
        min \in {<<>>, <<WarnLevel>>, <<PanicLevel>>, <<Disabled>>}}

SinkMessages == {<<>>, B("ready"), B("disk full")}

SinkKeyvals == {<<>>, <<StringValue(B("k")), StringValue(B("v"))>>}

SinkAttrs == {<<>>, <<Attr(B("k"), StringValue(B("v")))>>}

SlogLevels == {-8, slogLevelDebug, slogLevelInfo, slogLevelWarn, slogLevelError, 12}

InitSink ==
    /\ config \in [w : {"buffer"}, opts : SinkOptions, noColorEnv : {FALSE}]
    /\ logger = NewWithOptions(config.w, config.opts, config.noColorEnv)
    /\ call = NoCall
    /\ writes = <<>>
    /\ sinkErr \in SinkErrors
    /\ effects = <<>>
    /\ outcome = NoOutcome
    /\ one = oneloggerNewWithOptions(oneloggerZeroOptions)
    /\ ClassifierAndBridgeIdle
    /\ LaterIdle

\* logger.Logp(lvl, m, keyvals...): no result
SinkLogp ==
    /\ ~call.made
    /\ \E lvl \in Levels, m \in SinkMessages, keyvals \in SinkKeyvals, now \in Instants :
          /\ call' = [made |-> TRUE, level |-> lvl, msg |-> m, keyvals |-> keyvals,
                      now |-> now, method |-> "Logp"]
          /\ writes' = logInternal(logger, lvl, m, keyvals, now)
          /\ effects' = WriteEffects(writes', sinkErr)
          /\ outcome' = [how |-> "return", err |-> "none"]
    /\ UNCHANGED <<config, logger, sinkErr, one, cvars, bvars, yvars>>

\* logger.Handle(ctx, record): an error result
SinkHandle ==
    /\ ~call.made
    /\ \E l \in SlogLevels, m \in SinkMessages, attrs \in SinkAttrs, now \in Instants :
          \E h \in {Handle(logger, Record(l, m, attrs), now, sinkErr)} :
              /\ call' = [made |-> TRUE, level |-> LevelFromSlog(l), msg |-> m,
                          keyvals |-> attrs, now |-> now, method |-> "Handle"]
              /\ writes' = h.writes
              /\ effects' = WriteEffects(writes', sinkErr)
              /\ outcome' = [how |-> "return", err |-> h.err]
    /\ UNCHANGED <<config, logger, sinkErr, one, cvars, bvars, yvars>>

NextSink == SinkLogp \/ SinkHandle

SpecSink == InitSink /\ [][NextSink]_vars

(***************************************************************************)
(* Fatal and Panic: one call of Fatal or Panic on the psl adapter or on    *)
(* the onelogger adapter, whose threshold LogLevel may have raised.        *)
(***************************************************************************)
FatalOptions ==
    {[zeroOptions EXCEPT !.DisableTimestamp = TRUE, !.MinLevel = min] :
        min \in {<<>>, <<PanicLevel>>, <<Disabled>>}}

OneloggerOptions ==
    [ExitFunc : {"nil", "ExitFunc"}, MinLevel : {<<>>, <<PanicLevel>>}]

FatalMessages == {B("disk full")}

InitFatal ==
    /\ config \in [w : {"buffer"}, opts : FatalOptions, noColorEnv : {FALSE}]
    /\ logger = NewWithOptions(config.w, config.opts, config.noColorEnv)
    /\ call = NoCall
    /\ writes = <<>>
    /\ sinkErr \in SinkErrors
    /\ effects = <<>>
    /\ outcome = NoOutcome
    /\ \E opts \in OneloggerOptions : one = oneloggerNewWithOptions(opts)
    /\ ClassifierAndBridgeIdle
    /\ LaterIdle

\* The effects of a Fatal or Panic call become those of the run
Terminating(method, lvl, m, keyvals, now, done) ==
    /\ call' = [made |-> TRUE, level |-> lvl, msg |-> m, keyvals |-> keyvals,
                now |-> now, method |-> method]
    /\ effects' = done
    /\ writes' = [k \in 1..Cardinality({i \in 1..Len(done) : done[i].kind = "write"}) |->
                     done[k].bytes]
    /\ outcome' = [how |-> EndOf(done), err |-> "none"]

\* logger.Fatal(m, keyvals...) on the psl adapter
PslFatal ==
    /\ ~call.made
    /\ \E m \in FatalMessages, keyvals \in SinkKeyvals, now \in Instants :
          \E done \in {Fatal(logger, m, keyvals, now, sinkErr)} :
              Terminating("Fatal", FatalLevel, m, keyvals, now, done)
    /\ UNCHANGED <<config, logger, sinkErr, one, cvars, bvars, yvars>>

\* logger.Panic(m, keyvals...) on the psl adapter
PslPanic ==
    /\ ~call.made
    /\ \E m \in FatalMessages, keyvals \in SinkKeyvals, now \in Instants :
          \E done \in {Panic(logger, m, keyvals, now, sinkErr)} :
              Terminating("Panic", PanicLevel, m, keyvals, now, done)
    /\ UNCHANGED <<config, logger, sinkErr, one, cvars, bvars, yvars>>

\* one = one.LogLevel(L) on the onelogger adapter
OneLogLevel ==
    /\ ~call.made
    /\ \E L \in {PanicLevel, Disabled} :
          one' = oneloggerLogLevel(one, L)
    /\ UNCHANGED <<config, logger, call, writes, sinkErr, effects, outcome,
                   cvars, bvars, yvars>>

\* one.Fatal(m) on the onelogger adapter
OneFatal ==
    /\ ~call.made
    /\ \E m \in FatalMessages, now \in Instants :
          \E done \in {oneloggerLogFatal(one, m, sinkErr)} :
              Terminating("onelogger.Fatal", FatalLevel, m, <<>>, now, done)
    /\ UNCHANGED <<config, logger, sinkErr, one, cvars, bvars, yvars>>

\* one.Panic(m) on the onelogger adapter
OnePanic ==
    /\ ~call.made
    /\ \E m \in FatalMessages, now \in Instants :
          \E done \in {oneloggerPanic(one, m, sinkErr)} :
              Terminating("onelogger.Panic", PanicLevel, m, <<>>, now, done)
    /\ UNCHANGED <<config, logger, sinkErr, one, cvars, bvars, yvars>>

NextFatal == PslFatal \/ PslPanic \/ OneLogLevel \/ OneFatal \/ OnePanic

SpecFatal == InitFatal /\ [][NextFatal]_vars

(***************************************************************************)
(* The io.Writer bridge in front of an adapter: one Write whose Logp calls *)
(* go to a psl, a zaplogger or a onelogger adapter. The Write ends where   *)
(* a Logp call exits or panics.                                            *)
(***************************************************************************)
DeliverLines ==
    {Chars("INFO: ready"), Chars("[WARN] be careful\r"), Chars("[FATAL] disk full"),
     Chars("panic: out of range"), Chars(" plain message ")}

DeliverPayloads ==
    UNION {{JoinLines(ls) \o end : ls \in [1..k -> DeliverLines], end \in {<<>>, <<"\n">>}}
           : k \in 0..2}

Adapters == {"psl", "zaplogger", "onelogger"}

\* logger.Logp(level, msg) on the adapter the bridge was given
LogpOf(tgt, psl, onelog, lvl, m, now, writeErr) ==
    IF tgt = "psl" THEN pslLogp(psl, lvl, m, now, writeErr)
    ELSE IF tgt = "zaplogger" THEN zaploggerLogp(zaploggerNewWithOptions, lvl, m, writeErr)
    ELSE oneloggerLogp(onelog, lvl, m, writeErr)

\* The effects of the first n of the calls, in order
RECURSIVE EffectsUpTo(_, _)
EffectsUpTo(per, n) ==
    IF n = 0 THEN <<>> ELSE EffectsUpTo(per, n - 1) \o per[n]

\* What the Logp calls did up to the first that exits or panics, which is the
\* last one made: the effects in order, and the number of calls made
deliveredOf(per) ==
    LET ending == {i \in 1..Len(per) : EndOf(per[i]) # "return"}
        n == IF ending = {} THEN Len(per)
             ELSE Min(ending)
    IN  [done |-> EffectsUpTo(per, n), n |-> n]

\* The loop of writeBytesToLogger with its Logp calls carried out
deliverBytesToLogger(calls, tgt, psl, onelog, now, writeErr) ==
    deliveredOf([i \in 1..Len(calls) |->
                    LogpOf(tgt, psl, onelog, calls[i].level, calls[i].msg, now, writeErr)])

InitDeliver ==
    /\ payload \in DeliverPayloads
    /\ target \in Adapters
    /\ pinned \in {<<>>, <<InfoLevel>>, <<FatalLevel>>}
    /\ wpc = "input"
    /\ entries = <<>>
    /\ ret = <<-1, "unset">>
    /\ ClassifierIdle
    /\ config \in [w : {"buffer"}, opts : {[zeroOptions EXCEPT !.DisableTimestamp = TRUE]},
                   noColorEnv : {FALSE}]
    /\ logger = NewWithOptions(config.w, config.opts, config.noColorEnv)
    /\ call = NoCall
    /\ writes = <<>>
    /\ sinkErr \in SinkErrors
    /\ effects = <<>>
    /\ outcome = NoOutcome
    /\ one = oneloggerNewWithOptions(oneloggerZeroOptions)
    /\ LaterIdle

\* What a Write of the bridge does once p is not empty: the Logp calls, their
\* effects, and (len(p), nil) when the last of them returned
Delivered(override) ==
    \E calls \in {writeBytesToLogger(payload, override)} :
        \E d \in {deliverBytesToLogger(calls, target, logger, one, epoch, sinkErr)} :
            /\ entries' = SubSeq(calls, 1, d.n)
            /\ effects' = d.done
            /\ outcome' = [how |-> EndOf(d.done), err |-> "none"]
            /\ ret' = IF EndOf(d.done) = "return" THEN <<Len(payload), "nil">> ELSE ret

\* WriteToLogger(adapter, p), which is also the adapter's own Write(p)
DeliverWrite ==
    /\ wpc = "input"
    /\ pinned = <<>>
    /\ IF Len(payload) = 0
       THEN /\ ret' = <<0, "nil">>
            /\ outcome' = [how |-> "return", err |-> "none"]
            /\ UNCHANGED <<entries, effects>>
       ELSE Delivered(<<>>)
    /\ wpc' = "done"
    /\ UNCHANGED <<payload, target, pinned, cvars, evars, sinkErr, one, yvars>>

\* levelPinnedWriter.Write(p), the writer behind LogLoggerWithLevel
DeliverPinnedWrite ==
    /\ wpc = "input"
    /\ pinned # <<>>
    /\ IF Len(payload) = 0
       THEN /\ ret' = <<0, "nil">>
            /\ outcome' = [how |-> "return", err |-> "none"]
            /\ UNCHANGED <<entries, effects>>
       ELSE Delivered(pinned)
    /\ wpc' = "done"
    /\ UNCHANGED <<payload, target, pinned, cvars, evars, sinkErr, one, yvars>>

NextDeliver == DeliverWrite \/ DeliverPinnedWrite

SpecDeliver == InitDeliver /\ [][NextDeliver]_vars

(***************************************************************************)
(* The timestamp cache as a state machine: adapters are constructed,       *)
(* threads make one log call each and read the timestamp of their entry,   *)
(* refresh goroutines tick, and the clock advances.                        *)
(*                                                                         *)
(* Timing: a goroutine that was started creates its ticker, and a ticker   *)
(* that is due is served, before the clock moves on by a tick; so does the *)
(* thread that stored the first value and is about to start the goroutine. *)
(***************************************************************************)
MaxClock == 4

MaxAdapters == 2

clockNanoLayout == B("15:04:05.999999999")

CacheLayouts == {RFC3339, RFC3339Nano, clockNanoLayout}

restOfTimeCache == <<cvars, bvars, evars, svars, lvars, dvars, pvars, kvars, nvars>>

InitTimeCache ==
    /\ TimeCacheIdle
    /\ ClassifierAndBridgeIdle
    /\ EncoderIdle
    /\ SinkIdle
    /\ LevelsIdle
    /\ DeriveIdle
    /\ PoolIdle
    /\ ContextIdle
    /\ DropIdle

\* psl.NewWithOptions(w, Options{TimeFormat: layout}): a timeCache of its own
\* when the layout is cacheable
Construct ==
    /\ Len(tadapters) < MaxAdapters
    /\ \E layout \in CacheLayouts :
          LET a == NewWithOptions("buffer", [zeroOptions EXCEPT !.TimeFormat = layout],
                                  FALSE)
          IN  IF a.useTimeCache
              THEN /\ caches' = Append(caches, newTimeCache(a.timeFormat, a.useUTC))
                   /\ tadapters' = Append(tadapters, [layout |-> a.timeFormat,
                                      useTimeCache |-> TRUE, cache |-> Len(caches) + 1])
              ELSE /\ caches' = caches
                   /\ tadapters' = Append(tadapters, [layout |-> a.timeFormat,
                                      useTimeCache |-> FALSE, cache |-> 0])
    /\ UNCHANGED <<clock, threads, restOfTimeCache>>

\* A thread enters logInternal on adapter i and reaches the timestamp
CallLog(th) ==
    /\ threads[th].pc = "idle"
    /\ \E i \in 1..Len(tadapters) :
          threads' = [threads EXCEPT ![th].adapter = i,
                        ![th].pc = IF usesTimeCache(tadapters[i]) THEN "do" ELSE "fresh"]
    /\ UNCHANGED <<clock, caches, tadapters, restOfTimeCache>>

CacheOf(th) == tadapters[threads[th].adapter].cache

\* c.once.Do(...): the first caller runs the body, a caller that finds it
\* running waits, a caller that finds it done goes on to the load
OnceDo(th) ==
    /\ threads[th].pc = "do"
    /\ LET c == CacheOf(th)
       IN  /\ ~onceDoWaits(caches[c].once)
           /\ IF caches[c].once = "new"
              THEN /\ caches' = [caches EXCEPT ![c].once = "running"]
                   /\ threads' = [threads EXCEPT ![th].pc = "init"]
              ELSE /\ caches' = caches
                   /\ threads' = [threads EXCEPT ![th].pc = "load"]
    /\ UNCHANGED <<clock, tadapters, restOfTimeCache>>

\* The once body: now := time.Now(); c.value.Store(now.Format(c.layout))
OnceStore(th) ==
    /\ threads[th].pc = "init"
    /\ caches' = [caches EXCEPT ![CacheOf(th)] = StoreFormatted(@, clock)]
    /\ threads' = [threads EXCEPT ![th].pc = "go"]
    /\ UNCHANGED <<clock, tadapters, restOfTimeCache>>

\* The once body: go c.refresh(), and the body returns
OnceGo(th) ==
    /\ threads[th].pc = "go"
    /\ caches' = [caches EXCEPT ![CacheOf(th)] = [goRefresh(@) EXCEPT !.once = "done"]]
    /\ threads' = [threads EXCEPT ![th].pc = "load"]
    /\ UNCHANGED <<clock, tadapters, restOfTimeCache>>

\* if v := c.value.Load(); v != nil { return v.(string) }
Load(th) ==
    /\ threads[th].pc = "load"
    /\ LET v == caches[CacheOf(th)].value
       IN  threads' = IF v # <<>>
                      THEN [threads EXCEPT ![th].pc = "done",
                              ![th].ts = [text |-> v[1].text, formed |-> v[1].formed,
                                          at |-> clock, from |-> "cell"]]
                      ELSE [threads EXCEPT ![th].pc = "fresh"]
    /\ UNCHANGED <<clock, caches, tadapters, restOfTimeCache>>

\* now := time.Now(); now.Format(layout): in Current after a nil load, and in
\* logInternal for an adapter without a cache
FormatNow(th) ==
    /\ threads[th].pc = "fresh"
    /\ threads' = [threads EXCEPT ![th].pc = "done",
                     ![th].ts = [text |-> Format(tadapters[threads[th].adapter].layout,
                                                ClockInstant(clock)),
                                 formed |-> clock, at |-> clock, from |-> "fresh"]]
    /\ UNCHANGED <<clock, caches, tadapters, restOfTimeCache>>

ThreadStep(th) ==
    CallLog(th) \/ OnceDo(th) \/ OnceStore(th) \/ OnceGo(th) \/ Load(th) \/ FormatNow(th)

\* refresh: ticker := time.NewTicker(time.Second)
NewTicker ==
    /\ \E c \in 1..Len(caches) : \E r \in 1..Len(caches[c].refreshers) :
          /\ caches[c].refreshers[r].pc = "spawned"
          /\ caches' = [caches EXCEPT ![c].refreshers[r] =
                           [pc |-> "ticking", next |-> clock + Second]]
    /\ UNCHANGED <<clock, tadapters, threads, restOfTimeCache>>

\* refresh: for now := range ticker.C { c.value.Store(now.Format(c.layout)) }
RefreshTick ==
    /\ \E c \in 1..Len(caches) : \E r \in 1..Len(caches[c].refreshers) :
          LET g == caches[c].refreshers[r]
          IN  /\ g.pc = "ticking"
              /\ clock >= g.next
              /\ caches' = [caches EXCEPT
                              ![c] = [StoreFormatted(@, g.next) EXCEPT
                                        !.refreshers[r].next = g.next + Second]]
    /\ UNCHANGED <<clock, tadapters, threads, restOfTimeCache>>

\* Something the timing assumption wants done before the clock moves on
Urgent ==
    \/ \E th \in Threads : threads[th].pc = "go"
    \/ \E c \in 1..Len(caches) : \E r \in 1..Len(caches[c].refreshers) :
          \/ caches[c].refreshers[r].pc = "spawned"
          \/ caches[c].refreshers[r].pc = "ticking" /\ clock >= caches[c].refreshers[r].next

Tock ==
    /\ clock < MaxClock
    /\ ~Urgent
    /\ clock' = clock + 1
    /\ UNCHANGED <<caches, tadapters, threads, restOfTimeCache>>

NextTimeCache ==
    \/ Construct
    \/ \E th \in Threads : ThreadStep(th)
    \/ NewTicker
    \/ RefreshTick
    \/ Tock

SpecTimeCache == InitTimeCache /\ [][NextTimeCache]_vars

(***************************************************************************)
(* Thresholds: a logger is derived by LogLevel, With, WithGroup and        *)
(* WithAttrs in any order, then one call is made on the logger in hand.    *)
(***************************************************************************)
MaxGroups == 1

LevelsOptions ==
    {[zeroOptions EXCEPT !.Mode = mode, !.DisableTimestamp = TRUE, !.MinLevel = min] :
        mode \in {ModeConsole, ModeStructured},
        min \in {<<>>, <<ErrorLevel>>, <<Disabled>>}}

restOfLevels == <<config, cvars, bvars, svars, tvars, dvars, pvars, kvars, nvars>>

InitLevels ==
    /\ config \in [w : {"buffer"}, opts : LevelsOptions, noColorEnv : {FALSE}]
    /\ logger = NewWithOptions(config.w, config.opts, config.noColorEnv)
    /\ call = NoCall
    /\ writes = <<>>
    /\ asked = <<>>
    /\ ClassifierAndBridgeIdle
    /\ SinkIdle
    /\ TimeCacheIdle
    /\ DeriveIdle
    /\ PoolIdle
    /\ ContextIdle
    /\ DropIdle

\* logger = logger.LogLevel(L)
LevelsLogLevel ==
    /\ ~call.made
    /\ \E L \in Levels :
          /\ logger' = LogLevel(logger, L)
          /\ asked' = <<L>>
    /\ UNCHANGED <<call, writes, restOfLevels>>

\* logger = logger.With("k", "v")
LevelsWith ==
    /\ ~call.made
    /\ Len(logger.baseFields) < MaxBaseFields
    /\ logger' = With(logger, <<StringValue(B("k")), StringValue(B("v"))>>)
    /\ UNCHANGED <<call, writes, asked, restOfLevels>>

\* logger = logger.WithGroup("g")
LevelsWithGroup ==
    /\ ~call.made
    /\ Len(logger.groups) < MaxGroups
    /\ logger' = WithGroup(logger, B("g"))
    /\ UNCHANGED <<call, writes, asked, restOfLevels>>

\* logger = logger.WithAttrs([]slog.Attr{slog.Int("n", 7)})
LevelsWithAttrs ==
    /\ ~call.made
    /\ Len(logger.baseFields) < MaxBaseFields
    /\ logger' = WithAttrs(logger, <<Attr(B("n"), IntValue(7))>>)
    /\ UNCHANGED <<call, writes, asked, restOfLevels>>

\* logger.Logp(S, "ready")
LevelsLogp ==
    /\ ~call.made
    /\ \E S \in Levels :
          /\ call' = [made |-> TRUE, level |-> S, msg |-> B("ready"), keyvals |-> <<>>,
                      now |-> epoch]
          /\ writes' = logInternal(logger, S, B("ready"), <<>>, epoch)
    /\ UNCHANGED <<logger, asked, restOfLevels>>

NextLevels ==
    LevelsLogLevel \/ LevelsWith \/ LevelsWithGroup \/ LevelsWithAttrs \/ LevelsLogp

SpecLevels == InitLevels /\ [][NextLevels]_vars

(***************************************************************************)
(* Derivation: loggers are derived from any logger made so far, and log    *)
(* calls are made on the original and on the newest logger.                *)
(***************************************************************************)
MaxLoggers == 4

DeriveOptions ==
    [zeroOptions EXCEPT !.DisableTimestamp = TRUE, !.MinLevel = <<InfoLevel>>]

twoPairs ==
    <<StringValue(B("a")), StringValue(B("1")), StringValue(B("b")), StringValue(B("2"))>>

\* A key twoPairs holds too, with another value
onePair == <<StringValue(B("a")), IntValue(3)>>

oneAttr == <<Attr(B("y"), BoolValue(TRUE))>>

DeriveWithKeyvals == {twoPairs, onePair}

restOfDerive == <<cvars, bvars, evars, svars, tvars, lvars, pvars, kvars, nvars>>

\* What is kept of an adapter when it is made: its view, its receiver, and
\* the fields the caller attached with the call that made it
Made(h, a, parent, attached) ==
    [view |-> adapterView(h, a), parent |-> parent, attached |-> attached]

\* The key-value pairs of an argument list of string keys, in argument order
RECURSIVE PairsOf(_)
PairsOf(keyvals) ==
    IF Len(keyvals) < 2 THEN <<>>
    ELSE <<KV(keyvals[1].s, keyvals[2])>> \o PairsOf(SubSeq(keyvals, 3, Len(keyvals)))

\* key under the groups the receiver is in, outermost first
InGroups(groups, key) ==
    IF groups = <<>> THEN key ELSE JoinDot(groups) \o <<46>> \o key

InitDerive ==
    /\ heap = <<>>
    /\ loggers = <<adapterNew("buffer", DeriveOptions, FALSE)>>
    /\ made = <<Made(heap, loggers[1], 0, <<>>)>>
    /\ said = NoSaid
    /\ ClassifierAndBridgeIdle
    /\ EncoderIdle
    /\ SinkIdle
    /\ TimeCacheIdle
    /\ LevelsIdle
    /\ PoolIdle
    /\ ContextIdle
    /\ DropIdle

\* The derived adapter d.a joins the loggers, the heap becomes d.h
Derived(d, parent, attached) ==
    /\ heap' = d.h
    /\ loggers' = Append(loggers, d.a)
    /\ made' = Append(made, Made(d.h, d.a, parent, attached))
    /\ said' = NoSaid
    /\ UNCHANGED restOfDerive

DeriveLogLevel ==
    /\ Len(loggers) < MaxLoggers
    /\ \E r \in 1..Len(loggers) :
          \E d \in {adapterLogLevel(heap, loggers[r], WarnLevel)} : Derived(d, r, <<>>)

DeriveByWith ==
    /\ Len(loggers) < MaxLoggers
    /\ \E r \in 1..Len(loggers), keyvals \in DeriveWithKeyvals :
          \E d \in {adapterWith(heap, loggers[r], keyvals)} :
              Derived(d, r, PairsOf(keyvals))

DeriveWithGroup ==
    /\ Len(loggers) < MaxLoggers
    /\ \E r \in 1..Len(loggers) :
          /\ loggers[r].groups.len < MaxGroups
          /\ \E d \in {adapterWithGroup(heap, loggers[r], B("g"))} : Derived(d, r, <<>>)

DeriveWithAttrs ==
    /\ Len(loggers) < MaxLoggers
    /\ \E r \in 1..Len(loggers) :
          \E d \in {adapterWithAttrs(heap, loggers[r], oneAttr)} :
              Derived(d, r, <<KV(InGroups(made[r].view.groups, oneAttr[1].key),
                                 oneAttr[1].value)>>)

probeMessage == B("probe")

probeKeyvals == <<StringValue(B("k")), StringValue(B("v"))>>

\* loggers[i].Error("probe", "k", "v"). logInternal collects the fields of the
\* entry into a slice that starts nil, so the arrays of the loggers are read,
\* not written.
DeriveLogp ==
    /\ \E i \in {1, Len(loggers)} :
          \E a \in {adapterView(heap, loggers[i])} :
              said' = [made |-> TRUE, logger |-> i, level |-> ErrorLevel,
                       line |-> logInternal(a, ErrorLevel, probeMessage, probeKeyvals,
                                            epoch)]
    /\ UNCHANGED <<heap, loggers, made, restOfDerive>>

NextDerive ==
    DeriveLogLevel \/ DeriveByWith \/ DeriveWithGroup \/ DeriveWithAttrs \/ DeriveLogp

SpecDerive == InitDerive /\ [][NextDerive]_vars

(***************************************************************************)
(* The scratch pool as a state machine: threads make log calls, each on a  *)
(* sink of its own, and take the statements of logInternal one at a time.  *)
(***************************************************************************)
MaxCalls == 2

MaxScratches == 2

\* The formatted entry of each thread, before the newline: one that fits the
\* scratch buffer, one that outgrows keepCap
entryOf == [th \in Threads |-> IF th = "t1" THEN B("a=1") ELSE B("msg=0123456")]

restOfPool == <<cvars, bvars, evars, svars, tvars, lvars, dvars, kvars, nvars>>

InitPool ==
    /\ PoolIdle
    /\ ContextIdle
    /\ DropIdle
    /\ ClassifierAndBridgeIdle
    /\ EncoderIdle
    /\ SinkIdle
    /\ TimeCacheIdle
    /\ LevelsIdle
    /\ DeriveIdle

\* The statement thread th is at
StepOf(th) == IF workers[th].pc = 0 THEN "idle" ELSE logInternalSteps[workers[th].pc]

\* Thread th goes on to its next statement, or leaves logInternal
Advance(w) == [w EXCEPT !.pc = IF w.pc = Len(logInternalSteps) THEN 0 ELSE w.pc + 1]

\* A thread enters logInternal with an entry that passes the threshold
PoolCall(th) ==
    /\ StepOf(th) = "idle"
    /\ workers[th].calls < MaxCalls
    /\ workers' = [workers EXCEPT ![th] = [pc |-> 1, sc |-> 0, buf |-> nilSlice,
                                            calls |-> workers[th].calls + 1,
                                            written |-> FALSE]]
    /\ UNCHANGED <<pool, scratches, arrays, sinks, restOfPool>>

\* sc := scratchPool.Get().(*scratch); buf := sc.buf[:0], sc a pooled object
PoolGet(th) ==
    /\ StepOf(th) = "get"
    /\ \E i \in pool :
          /\ pool' = pool \ {i}
          /\ workers' = [workers EXCEPT ![th] =
                            Advance([@ EXCEPT !.sc = i,
                                               !.buf = [arr |-> scratches[i].buf.arr,
                                                        len |-> 0]])]
    /\ UNCHANGED <<scratches, arrays, sinks, restOfPool>>

\* sc := scratchPool.Get().(*scratch); buf := sc.buf[:0], sc from New
PoolNew(th) ==
    /\ StepOf(th) = "get"
    /\ Len(scratches) < MaxScratches
    /\ arrays' = makeBytes(arrays, scratchCap)
    /\ scratches' = Append(scratches, [buf |-> [arr |-> Len(arrays) + 1, len |-> 0]])
    /\ workers' = [workers EXCEPT ![th] =
                      Advance([@ EXCEPT !.sc = Len(scratches) + 1,
                                         !.buf = [arr |-> Len(arrays) + 1, len |-> 0]])]
    /\ UNCHANGED <<pool, sinks, restOfPool>>

\* buf = writeConsole(buf, ...) or writeStructured(buf, ...)
PoolFormat(th) ==
    /\ StepOf(th) = "format"
    /\ \E r \in {appendBytes(arrays, workers[th].buf, entryOf[th])} :
          /\ arrays' = r.as
          /\ workers' = [workers EXCEPT ![th] = Advance([@ EXCEPT !.buf = r.buf])]
    /\ UNCHANGED <<pool, scratches, sinks, restOfPool>>

\* buf = append(buf, 10)
PoolNewline(th) ==
    /\ StepOf(th) = "newline"
    /\ \E r \in {appendBytes(arrays, workers[th].buf, <<10>>)} :
          /\ arrays' = r.as
          /\ workers' = [workers EXCEPT ![th] = Advance([@ EXCEPT !.buf = r.buf])]
    /\ UNCHANGED <<pool, scratches, sinks, restOfPool>>

\* a.writer.Write(buf)
PoolWrite(th) ==
    /\ StepOf(th) = "write"
    /\ sinks' = [sinks EXCEPT ![th] = Append(@, bytesOf(arrays, workers[th].buf))]
    /\ workers' = [workers EXCEPT ![th] = Advance([@ EXCEPT !.written = TRUE])]
    /\ UNCHANGED <<pool, scratches, arrays, restOfPool>>

\* if cap(buf) > 8192 { sc.buf = make([]byte, 0, 256) } else { sc.buf = buf[:0] }
PoolReset(th) ==
    /\ StepOf(th) = "reset"
    /\ IF arrays[workers[th].buf.arr].cap > keepCap
       THEN /\ arrays' = makeBytes(arrays, scratchCap)
            /\ scratches' = [scratches EXCEPT ![workers[th].sc].buf =
                                [arr |-> Len(arrays) + 1, len |-> 0]]
       ELSE /\ arrays' = arrays
            /\ scratches' = [scratches EXCEPT ![workers[th].sc].buf =
                                [arr |-> workers[th].buf.arr, len |-> 0]]
    /\ workers' = [workers EXCEPT ![th] = Advance(@)]
    /\ UNCHANGED <<pool, sinks, restOfPool>>

\* scratchPool.Put(sc)
PoolPut(th) ==
    /\ StepOf(th) = "put"
    /\ pool' = pool \cup {workers[th].sc}
    /\ workers' = [workers EXCEPT ![th] = Advance(@)]
    /\ UNCHANGED <<scratches, arrays, sinks, restOfPool>>

NextPool ==
    \E th \in Threads :
        \/ PoolCall(th)
        \/ PoolGet(th)
        \/ PoolNew(th)
        \/ PoolFormat(th)
        \/ PoolNewline(th)
        \/ PoolWrite(th)
        \/ PoolReset(th)
        \/ PoolPut(th)

SpecPool == InitPool /\ [][NextPool]_vars

(***************************************************************************)
(* The logger a context.Context carries (logport.go)                       *)
(*                                                                         *)
(* A context is 0 (nil) or an index into ctxs; a node of ctxs is what      *)
(* context.Background or context.WithValue made: its parent (0 for the     *)
(* background context), its key and its value. A logger is "nil", "noop"   *)
(* (noopLogger{}) or a recording logger.                                   *)
(***************************************************************************)
nilContext == 0

nilLogger == "nil"

noopLogger == "noop"

loggerContextKey == "loggerContextKey"

MaxContexts == 3

MaxHeard == 1

ContextLoggers == {"rec1", "rec2", noopLogger}

Background == [parent |-> nilContext, key |-> "", val |-> nilLogger]

\* context.WithValue panics on a nil parent ("cannot create context from nil
\* parent"); otherwise it makes a child holding (key, val).
WithValue(h, parent, key, val) ==
    IF parent = nilContext
    THEN [panicked |-> TRUE, h |-> h, ctx |-> nilContext]
    ELSE [panicked |-> FALSE,
          h |-> Append(h, [parent |-> parent, key |-> key, val |-> val]),
          ctx |-> Len(h) + 1]

\* ctx.Value(key) of a non-nil context: the nearest node holding key, up the
\* chain of parents; the background context holds nothing.
RECURSIVE Value(_, _, _)
Value(h, ctx, key) ==
    IF h[ctx].parent = nilContext THEN [ok |-> FALSE, val |-> nilLogger]
    ELSE IF h[ctx].key = key THEN [ok |-> TRUE, val |-> h[ctx].val]
    ELSE Value(h, h[ctx].parent, key)

\* the type assertion .(ForLogging)
isForLogging(v) == v \in ContextLoggers

ContextWithLogger(h, ctx, lg) ==
    IF lg = nilLogger
    THEN [panicked |-> FALSE, h |-> h, ctx |-> ctx]
    ELSE WithValue(h, ctx, loggerContextKey, lg)

LoggerFromContext(h, ctx) ==
    IF ctx = nilContext THEN noopLogger
    ELSE LET v == Value(h, ctx, loggerContextKey)
         IN  IF v.ok /\ isForLogging(v.val) /\ v.val # nilLogger
             THEN v.val
             ELSE noopLogger

\* What a method of noopLogger does at each severity: Fatal exits, Panic
\* panics, every other method has an empty body.
noopLoggerEnd(lvl) ==
    IF lvl = FatalLevel THEN "exit"
    ELSE IF lvl = PanicLevel THEN "panic"
    ELSE "run"

InitContext ==
    /\ ClassifierAndBridgeIdle
    /\ EncoderIdle
    /\ SinkIdle
    /\ TimeCacheIdle
    /\ LevelsIdle
    /\ DeriveIdle
    /\ PoolIdle
    /\ DropIdle
    /\ ctxs = <<Background>>
    /\ stored = NoStored
    /\ fetched = NoFetched
    /\ heard = <<>>
    /\ ctxEnd = "run"

restOfContext == <<cvars, bvars, evars, svars, tvars, lvars, dvars, pvars, nvars>>

\* ctx2 := ContextWithLogger(ctx, lg), ctx nil or any context made so far
CtxStore(ctx, lg) ==
    /\ ctxEnd = "run"
    /\ Len(ctxs) < MaxContexts
    /\ \E r \in {ContextWithLogger(ctxs, ctx, lg)} :
        /\ ctxs' = r.h
        /\ stored' = [called |-> TRUE, ctx |-> ctx, lg |-> lg,
                      panicked |-> r.panicked, out |-> r.ctx,
                      before |-> Len(ctxs), after |-> Len(r.h)]
        /\ ctxEnd' = IF r.panicked THEN "panic" ELSE "run"
    /\ UNCHANGED <<fetched, heard, restOfContext>>

\* the caller's own context.WithValue(ctx, "key", 1) on a context it holds
CtxOther(ctx) ==
    /\ ctxEnd = "run"
    /\ Len(ctxs) < MaxContexts
    /\ ctxs' = WithValue(ctxs, ctx, "key", "1").h
    /\ UNCHANGED <<stored, fetched, heard, ctxEnd, restOfContext>>

\* lg := LoggerFromContext(ctx)
CtxFetch(ctx) ==
    /\ ctxEnd = "run"
    /\ fetched' = [called |-> TRUE, ctx |-> ctx, lg |-> LoggerFromContext(ctxs, ctx)]
    /\ UNCHANGED <<ctxs, stored, heard, ctxEnd, restOfContext>>

\* a logging call at severity lvl on the logger last fetched
CtxLog(lvl) ==
    /\ ctxEnd = "run"
    /\ fetched.called
    /\ Len(heard) < MaxHeard
    /\ IF fetched.lg = noopLogger
       THEN /\ ctxEnd' = noopLoggerEnd(lvl)
            /\ UNCHANGED heard
       ELSE /\ heard' = Append(heard, [lg |-> fetched.lg, level |-> lvl])
            /\ UNCHANGED ctxEnd
    /\ UNCHANGED <<ctxs, stored, fetched, restOfContext>>

NextContext ==
    \/ \E ctx \in 0..Len(ctxs), lg \in ContextLoggers \cup {nilLogger} : CtxStore(ctx, lg)
    \/ \E ctx \in 1..Len(ctxs) : CtxOther(ctx)
    \/ \E ctx \in 0..Len(ctxs) : CtxFetch(ctx)
    \/ \E lvl \in {InfoLevel, FatalLevel, PanicLevel} : CtxLog(lvl)

SpecContext == InitContext /\ [][NextContext]_vars

(***************************************************************************)
(* Dropping the level: a logger with some threshold, the logger derived    *)
(* from it by LogLevel(NoLevel) and then by With and WithGroup, and one    *)
(* call made on each of the two, each in a run of its own.                 *)
(***************************************************************************)
DropOptions ==
    {[zeroOptions EXCEPT !.DisableTimestamp = TRUE, !.MinLevel = min] :
        min \in {<<>>, <<WarnLevel>>}}

DropSeverities ==
    {TraceLevel, DebugLevel, InfoLevel, WarnLevel, ErrorLevel, FatalLevel, PanicLevel}

restOfDrop == <<cvars, bvars, evars, svars, tvars, lvars, dvars, pvars, kvars>>

InitDrop ==
    /\ \/ \E opts \in DropOptions :
            origin = [kind |-> "psl", a |-> NewWithOptions("buffer", opts, FALSE)]
       \/ \E opts \in OneloggerOptions :
            origin = [kind |-> "onelogger", a |-> oneloggerNewWithOptions(opts)]
    /\ offspring = <<>>
    /\ probed = NoProbe
    /\ ClassifierAndBridgeIdle
    /\ EncoderIdle
    /\ SinkIdle
    /\ TimeCacheIdle
    /\ LevelsIdle
    /\ DeriveIdle
    /\ PoolIdle
    /\ ContextIdle

\* a.LogLevel(lvl) on the adapter of either kind
LogLevelOf(kind, a, lvl) ==
    IF kind = "psl" THEN LogLevel(a, lvl) ELSE oneloggerLogLevel(a, lvl)

\* What the method of severity lvl (Trace .. Panic) does on the adapter, the
\* sink accepting every write
CallOf(kind, a, lvl, m) ==
    IF kind = "psl"
    THEN WriteEffects(logInternal(a, lvl, m, <<>>, epoch), "nil")
         \o (IF lvl = FatalLevel THEN <<[kind |-> "exit", code |-> 1]>>
             ELSE IF lvl = PanicLevel THEN <<[kind |-> "panic", value |-> m]>>
             ELSE <<>>)
    ELSE oneloggerLogp(a, lvl, m, "nil")

Emits(done) == \E i \in 1..Len(done) : done[i].kind = "write"

\* origin = origin.LogLevel(L), before anything is derived from it
DropLogLevel ==
    /\ offspring = <<>>
    /\ \E L \in DropSeverities :
          origin' = [origin EXCEPT !.a = LogLevelOf(origin.kind, origin.a, L)]
    /\ UNCHANGED <<offspring, probed, restOfDrop>>

\* offspring := origin.LogLevel(NoLevel)
DropNoLevel ==
    /\ offspring = <<>>
    /\ offspring' = <<LogLevelOf(origin.kind, origin.a, NoLevel)>>
    /\ UNCHANGED <<origin, probed, restOfDrop>>

\* offspring = offspring.With("k", "v"), on the psl adapter
DropWith ==
    /\ offspring # <<>>
    /\ origin.kind = "psl"
    /\ Len(offspring[1].baseFields) < MaxBaseFields
    /\ offspring' = <<With(offspring[1], <<StringValue(B("k")), StringValue(B("v"))>>)>>
    /\ UNCHANGED <<origin, probed, restOfDrop>>

\* offspring = offspring.WithGroup("g"), on the psl adapter
DropWithGroup ==
    /\ offspring # <<>>
    /\ origin.kind = "psl"
    /\ Len(offspring[1].groups) < MaxGroups
    /\ offspring' = <<WithGroup(offspring[1], B("g"))>>
    /\ UNCHANGED <<origin, probed, restOfDrop>>

\* The call of severity S with message "ready", on origin and on offspring
DropProbe ==
    /\ offspring # <<>>
    /\ \E S \in DropSeverities :
          \E emits \in {[a \in {origin.a, offspring[1]} |->
                            Emits(CallOf(origin.kind, a, S, B("ready")))]} :
              probed' = [made |-> TRUE, level |-> S,
                         byOrigin |-> emits[origin.a],
                         byOffspring |-> emits[offspring[1]]]
    /\ UNCHANGED <<origin, offspring, restOfDrop>>

NextDrop == DropLogLevel \/ DropNoLevel \/ DropWith \/ DropWithGroup \/ DropProbe

SpecDrop == InitDrop /\ [][NextDrop]_vars

(***************************************************************************)
(* The documented classification rules, stated apart from the code         *)
(***************************************************************************)
WhiteSpace == {" ", "\t", "\n", "\r", "\f"}

\* s without its longest prefix / suffix of characters of set.
RECURSIVE Strip(_, _)
Strip(s, set) ==
    IF s = <<>> THEN s
    ELSE IF Head(s) \in set THEN Strip(Tail(s), set)
    ELSE IF s[Len(s)] \in set THEN Strip(SubSeq(s, 1, Len(s) - 1), set)
    ELSE s

RECURSIVE StripLeading(_, _)
StripLeading(s, set) ==
    IF s # <<>> /\ Head(s) \in set THEN StripLeading(Tail(s), set) ELSE s

Line == Strip(raw, WhiteSpace)

LowerCase(s) == [i \in 1..Len(s) |-> toLowerASCII(s[i])]

TokenPunctuation ==
    {" ", "\t", "\r", "\n",
     ":", "|", "-", "[", "]", "(", ")", "{", "}", "<", ">", ";", ".", ",", "\"", "'"}

\* The recognised names a candidate token stands for (none, or one).
NamesOf(tok) ==
    {n \in TokenNames : Chars(n) = LowerCase(Strip(tok, TokenPunctuation))}

Recognised(tok) == NamesOf(tok) # {}

SeverityOfToken(tok) == SeverityOf(CHOOSE n \in NamesOf(tok) : TRUE)

\* 1-based positions of the characters of s that are in set.
Positions(s, set) == {i \in 1..Len(s) : s[i] \in set}

Before(s, i) == SubSeq(s, 1, i - 1)
After(s, i) == SubSeq(s, i + 1, Len(s))

\* Rule 1: the fixed prefix.
TLSRule(t) == Len(t) >= 25 /\ SubSeq(t, 1, 25) = Chars("http: TLS handshake error")

\* Rule 2: "[", a "]" after position 1, and a recognised token between them.
BracketRule(t) ==
    /\ t # <<>> /\ t[1] = "["
    /\ Positions(t, {"]"}) # {}
    /\ Min(Positions(t, {"]"})) > 2
    /\ Recognised(SubSeq(t, 2, Min(Positions(t, {"]"})) - 1))

BracketToken(t) == SubSeq(t, 2, Min(Positions(t, {"]"})) - 1)

\* Rule 3: the text before the first white space, colon, pipe or hyphen.
LeadingToken(t) ==
    LET at == Positions(t, {" ", "\t", ":", "|", "-"})
    IN  IF at = {} THEN t ELSE Before(t, Min(at))

LeadingRule(t) == Recognised(LeadingToken(t))

\* Rule 4: the text before the first ':', '|' or '-'.
EmbeddedRule(t) ==
    LET at == Positions(t, {":", "|", "-"})
    IN  at # {} /\ Min(at) > 1 /\ Recognised(Before(t, Min(at)))

EmbeddedToken(t) == Before(t, Min(Positions(t, {":", "|", "-"})))

\* Rule 5: "error" in any letter case, anywhere.
ErrorAt(t) ==
    {i \in 1..(Len(t) - 4) : LowerCase(SubSeq(t, i, i + 4)) = Chars("error")}

SubstringRule(t) == ErrorAt(t) # {}

\* The number of the first rule that matches t (6: none does).
FirstRule(t) ==
    IF TLSRule(t) THEN 1
    ELSE IF BracketRule(t) THEN 2
    ELSE IF LeadingRule(t) THEN 3
    ELSE IF EmbeddedRule(t) THEN 4
    ELSE IF SubstringRule(t) THEN 5
    ELSE 6

\* The severity the first matching rule gives t.
FirstRuleLevel(t) ==
    CASE FirstRule(t) = 1 -> ErrorLevel
      [] FirstRule(t) = 2 -> SeverityOfToken(BracketToken(t))
      [] FirstRule(t) = 3 -> SeverityOfToken(LeadingToken(t))
      [] FirstRule(t) = 4 -> SeverityOfToken(EmbeddedToken(t))
      [] FirstRule(t) = 5 -> ErrorLevel
      [] FirstRule(t) = 6 -> NoLevel

(***************************************************************************)
(* Claims about the classifier (checked under SpecClassify)                *)
(***************************************************************************)

\* C1: Classify applies its rules in one fixed priority order (TLS prefix,
\* bracketed token, leading bare token, embedded token before the first
\* ':', '|' or '-', "error" substring, no match) and returns the result of
\* the first rule that matches, also when a later rule matches too; an
\* unrecognised or empty candidate token falls through to the next rule, so
\* "INFO: an error occurred" is Info and not Error.
C1_FirstMatchingRuleWins ==
    (pc = "done" /\ Line # <<>>) =>
        /\ rule = FirstRule(Line)
        /\ level = FirstRuleLevel(Line)
        /\ (raw = Chars("INFO: an error occurred") => level = InfoLevel)

\* A line that a later rule matches as well (the "error" substring), settled
\* by the leading-token rule.
C1_Witness ==
    /\ pc = "done"
    /\ raw = Chars("INFO: an error occurred")
    /\ SubstringRule(Line)
    /\ rule = 3
    /\ level = InfoLevel

\* C2 (as stated): for every recognised token T in any letter case, every
\* delimiter style D and every non-empty M, Classify(D(T) + " " + M) is
\* (severity of T, M).
C2_AnyMessageReturnedUnchanged ==
    pc = "done" =>
        \A n \in TokenNames : \A t \in CasedTokens(n) : \A d \in Styles :
            \A m \in Messages :
                raw = Wrap(d, t) \o <<" ">> \o m =>
                    level = SeverityOf(n) /\ msg = m

\* C2 (amended): the severity is that of T, and the message is M with its
\* surrounding white space trimmed and, for the styles other than [T], its
\* leading ' ', tab, '-', '|' and ':' characters stripped; so the message is M
\* itself when M has no white space at either end and, outside the bracketed
\* style, does not begin with '-', '|' or ':'.
C2_TokenStrippedMessageCleaned ==
    pc = "done" =>
        \A n \in TokenNames : \A t \in CasedTokens(n) : \A d \in Styles :
            \A m \in Messages :
                raw = Wrap(d, t) \o <<" ">> \o m =>
                    /\ level = SeverityOf(n)
                    /\ msg = IF d = "bracket" THEN Strip(m, WhiteSpace)
                             ELSE Strip(StripLeading(m, {" ", "\t", "-", "|", ":"}),
                                        WhiteSpace)
                    /\ (/\ m # <<>>
                        /\ Head(m) \notin WhiteSpace
                        /\ m[Len(m)] \notin WhiteSpace
                        /\ (d = "bracket" \/ Head(m) \notin {"-", "|", ":"})) => msg = m

\* An upper-case token in the hyphen style whose message comes back unchanged.
C2_Witness ==
    /\ pc = "done"
    /\ raw = Wrap("hyphen", Chars("WARN")) \o <<" ">> \o Chars("slow path")
    /\ level = WarnLevel
    /\ msg = Chars("slow path")

\* C3: a line that begins with "http: TLS handshake error" is classified
\* Error, its message being what follows the prefix with the leading ':' and
\* ' ' characters (and surrounding white space) stripped; the rule wins over
\* the "error" substring fallback and every other rule.
C3_TLSHandshakeIsError ==
    (pc = "done" /\ TLSRule(Line)) =>
        /\ level = ErrorLevel
        /\ msg = StripLeading(Strip(SubSeq(Line, 26, Len(Line)), WhiteSpace), {":", " "})
        /\ (raw = Chars("http: TLS handshake error from 1.2.3.4: remote error: tls: bad certificate")
                => msg = Chars("from 1.2.3.4: remote error: tls: bad certificate"))

\* The TLS line of the documentation, whose text also holds "error" twice more.
C3_Witness ==
    /\ pc = "done"
    /\ raw = Chars("http: TLS handshake error from 1.2.3.4: remote error: tls: bad certificate")
    /\ level = ErrorLevel
    /\ msg = Chars("from 1.2.3.4: remote error: tls: bad certificate")

\* C4: a line that matches none of the prefix and token rules but holds
\* "error" in any letter case anywhere (no word boundary is looked for) is
\* classified Error; its message is the text after the first match with
\* leading ':' and ' ' stripped when that is not empty, and the whole
\* (white-space trimmed) line otherwise.
C4_ErrorSubstringFallback ==
    (/\ pc = "done"
     /\ ~TLSRule(Line) /\ ~BracketRule(Line) /\ ~LeadingRule(Line) /\ ~EmbeddedRule(Line)
     /\ SubstringRule(Line)) =>
        LET first == Min(ErrorAt(Line))
            tail == StripLeading(Strip(SubSeq(Line, first + 5, Len(Line)), WhiteSpace),
                                 {":", " "})
        IN  /\ level = ErrorLevel
            /\ msg = IF tail # <<>> THEN tail ELSE Line
            /\ (raw = Chars("request failed with unexpected ERROR code 42")
                    => msg = Chars("code 42"))

\* An upper-case match inside a sentence, and a match inside a longer word.
C4_Witness ==
    /\ pc = "done"
    /\ \/ raw = Chars("request failed with unexpected ERROR code 42") /\ msg = Chars("code 42")
       \/ raw = Chars("errorhandlerinitialized") /\ msg = Chars("handlerinitialized")
    /\ level = ErrorLevel
    /\ rule = 5

\* C5: Classify is total: it never fails (no slice out of range), empty or
\* white-space-only input yields (No-level, ""), and input that no rule
\* matches yields (No-level, the white-space trimmed input).
C5_TotalAndNoLevelDefault ==
    pc = "done" =>
        /\ slicesOk
        /\ level \in Levels \ {Disabled}
        /\ (Line = <<>> => (level = NoLevel /\ msg = <<>>))
        /\ (Line # <<>> /\ FirstRule(Line) = 6) => (level = NoLevel /\ msg = Line)

\* A padded line without level metadata, returned trimmed at No-level.
C5_Witness ==
    /\ pc = "done"
    /\ raw = Chars("  padded plain  ")
    /\ level = NoLevel
    /\ msg = Chars("padded plain")

(***************************************************************************)
(* Claims about the bridge (checked under SpecBridge)                      *)
(***************************************************************************)
\* The pieces of s between the occurrences of c.
RECURSIVE SplitOn(_, _)
SplitOn(s, c) ==
    IF Positions(s, {c}) = {} THEN <<s>>
    ELSE <<Before(s, Min(Positions(s, {c})))>> \o SplitOn(After(s, Min(Positions(s, {c}))), c)

IsBlank(l) == Strip(l, WhiteSpace) = <<>>

NonBlankLines(p) == SelectSeq(SplitOn(p, "\n"), LAMBDA l : ~IsBlank(l))

C7_PinnedLevelClassifierMessage ==
    (wpc = "done" /\ pinned # <<>>) =>
        \A i \in 1..Len(entries) :
            /\ entries[i].level = pinned[1]
            /\ entries[i].msg = classifyLogLine(Strip(entries[i].line, {"\r"})).msg

\* C7 (amended): every entry delivered has severity L whatever the classifier
\* detects; the delivered message is the classifier's cleaned message when
\* that is not empty, and the white-space trimmed line itself (level token
\* included) when the classifier leaves no message, as for "INFO:".
C7_PinnedLevelMessageOrWholeLine ==
    (wpc = "done" /\ pinned # <<>>) =>
        \A i \in 1..Len(entries) :
            LET cleaned == classifyLogLine(Strip(entries[i].line, {"\r"})).msg
            IN  /\ entries[i].level = pinned[1]
                /\ entries[i].msg =
                        IF cleaned # <<>> THEN cleaned
                        ELSE Strip(entries[i].line, WhiteSpace)

\* An Info line and a Warn line, both delivered at the pinned Error with their
\* tokens stripped.
C7_Witness ==
    /\ wpc = "done" /\ pinned = <<ErrorLevel>> /\ target = "rec"
    /\ payload = Chars("INFO: ready\n[WARN] be careful\r\n")
    /\ entries = <<LogpCall(ErrorLevel, Chars("ready"), Chars("INFO: ready")),
                   LogpCall(ErrorLevel, Chars("be careful"), Chars("[WARN] be careful\r"))>>

(***************************************************************************)
(* The encoder's contract, stated on the inputs and the bytes written      *)
(***************************************************************************)
CountByte(s, b) == Cardinality({i \in 1..Len(s) : s[i] = b})

HasByte(s, b) == \E i \in 1..Len(s) : s[i] = b

\* Colour is disabled by the NoColor option, by NO_COLOR in the environment,
\* or by a destination that is not a terminal.
ColourDisabled ==
    config.opts.NoColor \/ config.noColorEnv \/ config.w # "tty"

StructuredMode == config.opts.Mode = ModeStructured

\* The text has no byte outside a well-formed UTF-8 sequence.
RECURSIVE ValidUTF8From(_, _)
ValidUTF8From(s, i) ==
    IF i >= Len(s) THEN TRUE
    ELSE LET d == DecodeRune(s, i)
         IN  IF d.r = RuneError /\ d.size = 1 THEN FALSE
             ELSE ValidUTF8From(s, i + d.size)

ValidUTF8(s) == ValidUTF8From(s, 0)

\* The JSON string escaping of the specification: quote and backslash get a
\* backslash, control characters their short escape or \u00XX, an invalid
\* byte the escape \ufffd, everything else is kept.
RECURSIVE EscapeJSONFrom(_, _)
EscapeJSONFrom(s, i) ==
    IF i >= Len(s) THEN <<>>
    ELSE LET d == DecodeRune(s, i)
             c == At(s, i)
             out == IF d.r = RuneError /\ d.size = 1 THEN <<92, 117, 102, 102, 102, 100>>
                    ELSE IF c = 34 \/ c = 92 THEN <<92, c>>
                    ELSE IF c = 8 THEN <<92, 98>>
                    ELSE IF c = 12 THEN <<92, 102>>
                    ELSE IF c = 10 THEN <<92, 110>>
                    ELSE IF c = 13 THEN <<92, 114>>
                    ELSE IF c = 9 THEN <<92, 116>>
                    ELSE IF c < 32 THEN <<92, 117, 48, 48>> \o Hex2(c)
                    ELSE Slice(s, i, i + d.size)
         IN  out \o EscapeJSONFrom(s, i + d.size)

EscapeJSON(s) == <<34>> \o EscapeJSONFrom(s, 0) \o <<34>>

\* The string texts of a logging call: the message, and the keys and string
\* values of its keyvals.
CallTexts ==
    {call.msg} \cup {call.keyvals[i].s : i \in {j \in 1..Len(call.keyvals) :
                                              call.keyvals[j].kind = "string"}}

(***************************************************************************)
(* A JSON decoder for the lines of the structured mode: objects whose      *)
(* values are strings, integers, true, false and null (what the value      *)
(* kinds of the model are written as). Like encoding/json it replaces an   *)
(* invalid UTF-8 byte inside a string by U+FFFD.                           *)
(***************************************************************************)
ParseFailed == [ok |-> FALSE, val |-> <<>>, next |-> 0]

Parsed(v, next) == [ok |-> TRUE, val |-> v, next |-> next]

RECURSIVE SkipWS(_, _)
SkipWS(s, i) ==
    IF i < Len(s) /\ At(s, i) \in {32, 9, 10, 13} THEN SkipWS(s, i + 1) ELSE i

HexValue(b) ==
    IF b >= 48 /\ b <= 57 THEN b - 48
    ELSE IF b >= 97 /\ b <= 102 THEN b - 87
    ELSE IF b >= 65 /\ b <= 70 THEN b - 55
    ELSE -1

\* The UTF-8 encoding of a code point of the basic plane (a surrogate is
\* decoded as U+FFFD)
EncodeRune(r) ==
    IF r < 128 THEN <<r>>
    ELSE IF r < 2048 THEN <<192 + (r \div 64), 128 + (r % 64)>>
    ELSE IF r >= 55296 /\ r <= 57343 THEN <<239, 191, 189>>
    ELSE <<224 + (r \div 4096), 128 + ((r \div 64) % 64), 128 + (r % 64)>>

\* The text of a string from the 0-based index i (after the opening quote)
\* up to the closing quote
RECURSIVE ParseStringBody(_, _)
ParseStringBody(s, i) ==
    IF i >= Len(s) THEN ParseFailed
    ELSE LET c == At(s, i)
         IN  IF c = 34 THEN Parsed(<<>>, i + 1)
             ELSE IF c < 32 THEN ParseFailed
             ELSE IF c = 92
             THEN IF i + 1 >= Len(s) THEN ParseFailed
                  ELSE LET e == At(s, i + 1)
                           simple == CASE e = 34 -> <<34>>
                                       [] e = 92 -> <<92>>
                                       [] e = 47 -> <<47>>
                                       [] e = 98 -> <<8>>
                                       [] e = 102 -> <<12>>
                                       [] e = 110 -> <<10>>
                                       [] e = 114 -> <<13>>
                                       [] e = 116 -> <<9>>
                                       [] OTHER -> <<>>
                       IN  IF simple # <<>>
                           THEN LET rest == ParseStringBody(s, i + 2)
                                IN  IF rest.ok THEN Parsed(simple \o rest.val, rest.next)
                                    ELSE ParseFailed
                           ELSE IF e = 117 /\ i + 5 < Len(s)
                                   /\ \A k \in 2..5 : HexValue(At(s, i + k)) >= 0
                           THEN LET r == HexValue(At(s, i + 2)) * 4096
                                         + HexValue(At(s, i + 3)) * 256
                                         + HexValue(At(s, i + 4)) * 16
                                         + HexValue(At(s, i + 5))
                                    rest == ParseStringBody(s, i + 6)
                                IN  IF rest.ok
                                    THEN Parsed(EncodeRune(r) \o rest.val, rest.next)
                                    ELSE ParseFailed
                           ELSE ParseFailed
             ELSE LET d == DecodeRune(s, i)
                      bytes == IF d.r = RuneError /\ d.size = 1 THEN <<239, 191, 189>>
                               ELSE Slice(s, i, i + d.size)
                      rest == ParseStringBody(s, i + d.size)
                  IN  IF rest.ok THEN Parsed(bytes \o rest.val, rest.next)
                      ELSE ParseFailed

\* The digits from the 0-based index i on: their number and value
RECURSIVE ParseDigits(_, _, _)
ParseDigits(s, i, acc) ==
    IF i < Len(s) /\ At(s, i) >= 48 /\ At(s, i) <= 57
    THEN ParseDigits(s, i + 1, acc * 10 + (At(s, i) - 48))
    ELSE [n |-> acc, next |-> i]

\* An integer: -? (0 | [1-9][0-9]*), not followed by a fraction or exponent
ParseInteger(s, i) ==
    LET neg == i < Len(s) /\ At(s, i) = 45
        j == IF neg THEN i + 1 ELSE i
        d == ParseDigits(s, j, 0)
    IN  IF d.next = j THEN ParseFailed
        ELSE IF At(s, j) = 48 /\ d.next > j + 1 THEN ParseFailed
        ELSE IF d.next < Len(s) /\ At(s, d.next) \in {46, 101, 69} THEN ParseFailed
        ELSE Parsed(IntValue(IF neg THEN -d.n ELSE d.n), d.next)

jsonTrue == B("true")
jsonFalse == B("false")
jsonNull == B("null")

ParseValue(s, i) ==
    IF i >= Len(s) THEN ParseFailed
    ELSE IF At(s, i) = 34
    THEN LET str == ParseStringBody(s, i + 1)
         IN  IF str.ok THEN Parsed(StringValue(str.val), str.next) ELSE ParseFailed
    ELSE IF HasPrefix(SliceFrom(s, i), jsonTrue) THEN Parsed(BoolValue(TRUE), i + 4)
    ELSE IF HasPrefix(SliceFrom(s, i), jsonFalse) THEN Parsed(BoolValue(FALSE), i + 5)
    ELSE IF HasPrefix(SliceFrom(s, i), jsonNull) THEN Parsed(NilValue, i + 4)
    ELSE ParseInteger(s, i)

\* The members from the 0-based index i (at a key) up to the closing brace
RECURSIVE ParseMembers(_, _)
ParseMembers(s, i) ==
    IF i >= Len(s) \/ At(s, i) # 34 THEN ParseFailed
    ELSE LET key == ParseStringBody(s, i + 1)
             colon == SkipWS(s, key.next)
         IN  IF ~key.ok \/ colon >= Len(s) \/ At(s, colon) # 58 THEN ParseFailed
             ELSE LET value == ParseValue(s, SkipWS(s, colon + 1))
                      after == SkipWS(s, value.next)
                      member == KV(key.val, value.val)
                  IN  IF ~value.ok \/ after >= Len(s) THEN ParseFailed
                      ELSE IF At(s, after) = 125 THEN Parsed(<<member>>, after + 1)
                      ELSE IF At(s, after) = 44
                      THEN LET rest == ParseMembers(s, SkipWS(s, after + 1))
                           IN  IF rest.ok THEN Parsed(<<member>> \o rest.val, rest.next)
                               ELSE ParseFailed
                      ELSE ParseFailed

\* The members of the one JSON object the text holds, in order
ParseObject(s) ==
    LET open == SkipWS(s, 0)
        first == SkipWS(s, open + 1)
        body == IF first < Len(s) /\ At(s, first) = 125 THEN Parsed(<<>>, first + 1)
                ELSE ParseMembers(s, first)
    IN  IF open >= Len(s) \/ At(s, open) # 123 THEN ParseFailed
        ELSE IF body.ok /\ SkipWS(s, body.next) = Len(s) THEN body
        ELSE ParseFailed

\* What a field value decodes as: text for the string kinds, the value itself
\* for integers, booleans and nil
DecodedValue(v) ==
    IF v.kind \in {"string", "error", "bytes"} THEN StringValue(v.s) ELSE v

\* The members the line of the last call has to decode to: the configured
\* time, level and message keys (time without DisableTimestamp, message when
\* not empty), then one member per field
ExpectedMembers ==
    LET names == IF config.opts.VerboseFields THEN verboseFieldNames ELSE shortFieldNames
        layout == IF config.opts.TimeFormat = <<>> THEN RFC3339 ELSE config.opts.TimeFormat
        fields == logFields(logger, call.keyvals)
    IN  (IF config.opts.DisableTimestamp THEN <<>>
         ELSE <<KV(names.time, StringValue(Format(layout, call.now)))>>)
        \o <<KV(names.level, StringValue(structuredLevel(call.level)))>>
        \o (IF call.msg = <<>> THEN <<>> ELSE <<KV(names.message, StringValue(call.msg))>>)
        \o [i \in 1..Len(fields) |-> KV(fields[i].key, DecodedValue(fields[i].value))]

\* C8: every line of the structured mode without JSON colouring is one valid
\* JSON object that decodes to exactly the time, level and message of the call
\* and one member per field, with the original bytes and integers.
C8_StructuredLineRoundTrips ==
    (call.made /\ StructuredMode /\ (ColourDisabled \/ ~config.opts.ColorJSON)) =>
        \A i \in 1..Len(writes) :
            LET obj == ParseObject(writes[i])
            IN  obj.ok /\ obj.val = ExpectedMembers

\* C9: a structured line holds no raw invalid UTF-8 byte, the escaper having
\* written every invalid byte of the message as \ufffd and every control
\* character as its escape.
C9_InvalidBytesEscaped ==
    (call.made /\ StructuredMode) =>
        /\ \A i \in 1..Len(writes) : ValidUTF8(writes[i])
        /\ \A text \in CallTexts : appendJSONString(text) = EscapeJSON(text)

\* The field keys a line carries: those of the derived adapter, then those
\* the call passed
FieldKeys ==
    LET fields == logFields(logger, call.keyvals)
    IN  [i \in 1..Len(fields) |-> fields[i].key]

RECURSIVE SumEscapes(_)
SumEscapes(texts) ==
    IF texts = <<>> THEN 0
    ELSE CountByte(Head(texts), escapeByte) + SumEscapes(Tail(texts))

WriteFailed ==
    \E i \in 1..Len(effects) : effects[i].kind = "write" /\ effects[i].err # "nil"

NumberOfWrites == Cardinality({i \in 1..Len(effects) : effects[i].kind = "write"})

\* C11 as stated: when the sink's Write fails, a call with an error result
\* (Handle) hands that error to its caller unchanged.
C11_WriteErrorPropagated ==
    (call.made /\ WriteFailed /\ outcome.err # "none") => outcome.err = sinkErr

\* C11: a failing Write of the sink is not retried, and its error is dropped:
\* the entry is handed to the sink once, Logp has no result and Handle
\* returns nil (Fatal and Panic end as they do when the Write succeeds).
C11_WriteErrorDroppedNotRetried ==
    (call.made /\ WriteFailed) =>
        /\ NumberOfWrites = 1
        /\ call.method \in {"Logp", "Handle"} => outcome.how = "return"
        /\ outcome.err \in {"none", "nil"}

\* A Handle call whose entry reached a sink that returned EIO, and that
\* returned nil.
C11_Witness ==
    /\ call.made
    /\ sinkErr = "EIO"
    /\ WriteFailed
    /\ outcome = [how |-> "return", err |-> "nil"]


(***************************************************************************)
(* The timestamp cache                                                     *)
(***************************************************************************)
Finished(th) == threads[th].pc = "done"

LayoutOf(th) == tadapters[threads[th].adapter].layout

Cached(th) == threads[th].adapter # 0 /\ usesTimeCache(tadapters[threads[th].adapter])

\* The refresh goroutines started for the pair (layout, utc), over all caches
RefreshTasks(layout, utc) ==
    {<<c, r>> \in (1..Len(caches)) \X (1..(2 * Cardinality(Threads))) :
        /\ caches[c].layout = layout
        /\ caches[c].utc = utc
        /\ r <= Len(caches[c].refreshers)}

\* C12: at most one refresh task is ever started per (layout, UTC flag) pair,
\* however many loggers are constructed with that layout and however many
\* threads make their first call at once.
C12_OneRefreshTaskPerLayoutPair ==
    \A layout \in CacheLayouts, utc \in BOOLEAN :
        Cardinality(RefreshTasks(layout, utc)) <= 1

\* C13: every read of the cached timestamp returns the value published in the
\* cell, non-empty and fully formatted, also on the first call and on calls
\* that race with the first use; once the cache is initialised no reader has
\* to wait.
C13_ReadsReturnLastPublished ==
    /\ \A th \in Threads :
          (Finished(th) /\ Cached(th)) =>
             /\ threads[th].ts.from = "cell"
             /\ threads[th].ts.text # <<>>
             /\ threads[th].ts.text =
                    Current(LayoutOf(th), caches[CacheOf(th)].utc,
                            ClockInstant(threads[th].ts.formed))
    /\ \A th \in Threads :
          (threads[th].pc \in {"do", "load"} /\ caches[CacheOf(th)].once = "done") =>
             ENABLED ThreadStep(th)

\* Two threads have read the first value of a shared cache whose refresh
\* goroutine has not stored anything yet
C13_Witness ==
    /\ \A th \in Threads : Finished(th) /\ Cached(th) /\ threads[th].ts.from = "cell"
    /\ threads["t1"].adapter = threads["t2"].adapter
    /\ caches[CacheOf("t1")].refreshers[1].pc = "spawned"

\* C14: once the cache is primed, the timestamp of a log call is at most one
\* refresh period older than the clock at that call, with several threads on
\* a shared cache.
C14_StalenessWithinOnePeriod ==
    \A th \in Threads :
        (Finished(th) /\ threads[th].ts.from = "cell") =>
            threads[th].ts.at - threads[th].ts.formed <= Second

\* Two threads share a cache; one read a value a whole period old, after the
\* refresh goroutine had replaced the first value
C14_Witness ==
    /\ \A th \in Threads : Finished(th) /\ threads[th].ts.from = "cell"
    /\ threads["t1"].adapter = threads["t2"].adapter
    /\ threads["t1"].ts.at - threads["t1"].ts.formed = Second
    /\ threads["t1"].ts.formed >= Second

\* The layout has a chunk for a fraction of a second
RECURSIVE HasFraction(_)
HasFraction(layout) ==
    /\ layout # <<>>
    /\ (HasPrefix(layout, stdFracSecond9) \/ HasFraction(Tail(layout)))

\* C15: a layout outside the pre-approved set, and a layout whose output
\* depends on a fraction of a second, is formatted from the current time on
\* every log call and never served from the cache.
C15_SubSecondLayoutsFormattedFresh ==
    \A th \in Threads :
        (Finished(th) /\ (~isCacheableLayout(LayoutOf(th)) \/ HasFraction(LayoutOf(th)))) =>
            /\ threads[th].ts.from = "fresh"
            /\ threads[th].ts.text = Format(LayoutOf(th), ClockInstant(threads[th].ts.at))


(***************************************************************************)
(* Thresholds                                                              *)
(***************************************************************************)
\* Trace < Debug < Info < Warn < Error < Fatal < Panic
SeverityOrder ==
    <<TraceLevel, DebugLevel, InfoLevel, WarnLevel, ErrorLevel, FatalLevel, PanicLevel>>

Severities == {SeverityOrder[i] : i \in DOMAIN SeverityOrder}

Rank(lvl) == CHOOSE i \in DOMAIN SeverityOrder : SeverityOrder[i] = lvl

Emitted == writes # <<>>

\* The threshold of the logger in hand is Disabled: by LogLevel(Disabled), or
\* by Options.MinLevel with no LogLevel call since
ThresholdDisabled ==
    \/ asked = <<Disabled>>
    \/ asked = <<>> /\ config.opts.MinLevel = <<Disabled>>

\* C16: after LogLevel(L), L in Trace..Panic, and any With/WithGroup/WithAttrs
\* derivations, a call at severity S in Trace..Panic is emitted exactly when
\* S >= L; a logger whose threshold is Disabled emits nothing; an entry of
\* severity Disabled is never emitted.
C16_EmittedIffAtOrAboveThreshold ==
    call.made =>
        /\ (asked # <<>> /\ asked[1] \in Severities /\ call.level \in Severities) =>
              (Emitted <=> Rank(call.level) >= Rank(asked[1]))
        /\ ThresholdDisabled => ~Emitted
        /\ call.level = Disabled => ~Emitted

\* A call at Warn on a logger set to Warn and then given fields and a group
\* is emitted
C16_Witness ==
    /\ call.made
    /\ asked = <<WarnLevel>>
    /\ call.level = WarnLevel
    /\ logger.baseFields # <<>>
    /\ logger.groups # <<>>
    /\ Emitted


(***************************************************************************)
(* Derivation                                                              *)
(***************************************************************************)
\* C17: LogLevel, With, WithGroup and WithAttrs leave the receiver untouched:
\* after any derivations and log calls every logger, the original among them,
\* has the threshold, the fields in their order and the groups it was made
\* with, and a call on it emits the line it would have emitted then.
C17_DerivationLeavesLoggersUntouched ==
    /\ \A i \in 1..Len(loggers) : adapterView(heap, loggers[i]) = made[i].view
    /\ said.made =>
          said.line = logInternal(made[said.logger].view, said.level, probeMessage,
                                  probeKeyvals, epoch)

\* The original is called after two loggers were derived from one receiver
\* that holds fields, each with a field more
C17_Witness ==
    /\ said.made
    /\ said.logger = 1
    /\ said.line # <<>>
    /\ \E i, j \in 2..Len(loggers) :
          /\ i # j
          /\ made[i].parent = made[j].parent
          /\ made[i].parent > 1
          /\ Len(made[made[i].parent].view.baseFields) = 2
          /\ Len(made[i].view.baseFields) = 3
          /\ Len(made[j].view.baseFields) = 3


(***************************************************************************)
(* Fatal and Panic                                                         *)
(***************************************************************************)
FatalCall == call.made /\ call.method \in {"Fatal", "onelogger.Fatal"}

PanicCall == call.made /\ call.method \in {"Panic", "onelogger.Panic"}

\* C18: a Fatal call ends in an exit with status 1 and a Panic call in a
\* panic, in each case after the logging: whatever is written to the sink is
\* written before, and the call never comes back without the termination.
C18_FatalAndPanicTerminateAfterLogging ==
    (FatalCall \/ PanicCall) =>
        /\ effects # <<>>
        /\ \A i \in 1..(Len(effects) - 1) : effects[i].kind = "write"
        /\ FatalCall => effects[Len(effects)] = [kind |-> "exit", code |-> 1]
        /\ PanicCall => effects[Len(effects)].kind = "panic"
        /\ outcome.how # "return"


(***************************************************************************)
(* The scratch pool                                                        *)
(***************************************************************************)
\* Thread th is in a call and has taken its scratch object
InFlight(th) == workers[th].pc > 1

\* C19: under any interleaving of concurrent log calls, no two calls in flight
\* use the same scratch object or byte array, a scratch object is in the pool
\* only after the call that took it has handed its bytes to the sink, and
\* each sink is handed exactly the entries of its own thread, each followed
\* by its newline.
C19_ScratchBuffersNotShared ==
    /\ \A t1, t2 \in Threads :
          (t1 # t2 /\ InFlight(t1) /\ InFlight(t2)) =>
             /\ workers[t1].sc # workers[t2].sc
             /\ workers[t1].buf.arr # workers[t2].buf.arr
    /\ \A th \in Threads :
          (InFlight(th) /\ workers[th].sc \in pool) => workers[th].written
    /\ \A th \in Threads :
          \A k \in 1..Len(sinks[th]) : sinks[th][k] = entryOf[th] \o <<10>>

\* Both threads are in flight, one of them on a scratch object the other
\* used, wrote from and put back
C19_Witness ==
    /\ \A th \in Threads : InFlight(th)
    /\ sinks["t1"] # <<>>
    /\ sinks["t2"] # <<>>
    /\ \E th \in Threads : workers[th].calls = 2 /\ workers[th].sc = 1
    /\ Len(scratches) = 2

(***************************************************************************)
(* One line per entry                                                      *)
(***************************************************************************)
\* The number of newline bytes in s
Newlines(s) == Cardinality({i \in 1..Len(s) : s[i] = 10})

\* The number of newline bytes in the keys of fields
RECURSIVE KeyNewlines(_)
KeyNewlines(fields) ==
    IF fields = <<>> THEN 0
    ELSE Newlines(Head(fields).key) + KeyNewlines(Tail(fields))

\* The call was made and its entry passes the threshold of a logger that
\* does not discard
EntryEmitted ==
    /\ call.made
    /\ call.level # Disabled
    /\ shouldLog(logger, call.level)
    /\ ~logger.discard

\* The one buffer written holds exactly one newline, as its final byte
OneLine ==
    /\ Len(writes) = 1
    /\ writes[1][Len(writes[1])] = 10
    /\ Newlines(writes[1]) = 1

FirstByte(s, b, i) ==
    LET hits == {j \in i..Len(s) : s[j] = b}
    IN  IF hits = {} THEN Len(s) + 1 ELSE CHOOSE j \in hits : \A k \in hits : j <= k

\* s without the ANSI sequences ESC [ ... m
RECURSIVE Uncoloured(_)
Uncoloured(s) ==
    LET e == FirstByte(s, escapeByte, 1)
    IN  IF e > Len(s) THEN s
        ELSE SubSeq(s, 1, e - 1)
             \o Uncoloured(SubSeq(s, FirstByte(s, 109, e) + 1, Len(s)))

\* The 0-based index of the first occurrence of sub in s, -1 without one
IndexOf(s, sub) ==
    LET hits == {i \in 0..Len(s) - Len(sub) : SubSeq(s, i + 1, i + Len(sub)) = sub}
    IN  IF hits = {} THEN -1 ELSE CHOOSE i \in hits : \A j \in hits : i <= j

\* A key as it stands in an object: "key":
KeyToken(key) == <<34>> \o key \o B("\":")

StructuredEntry == EntryEmitted /\ logger.mode = ModeStructured

\* The key names in use and the ones not in use
NamesInUse == IF config.opts.VerboseFields THEN verboseFieldNames ELSE shortFieldNames

NamesNotInUse == IF config.opts.VerboseFields THEN shortFieldNames ELSE verboseFieldNames

\* The line of the call without its colour sequences
StructuredText == Uncoloured(writes[1])

\* The text is brace-delimited; the time key stands first if and only if
\* timestamps are enabled; the level key follows it; no key of the other
\* naming is there; the field keys follow in the order of the fields
HeaderKeysInOrder ==
    LET U == StructuredText
        pT == IndexOf(U, KeyToken(NamesInUse.time))
        pL == IndexOf(U, KeyToken(NamesInUse.level))
        fields == logFields(logger, call.keyvals)
        pF == [i \in 1..Len(fields) |-> IndexOf(U, <<44>> \o KeyToken(fields[i].key))]
    IN  /\ Len(writes) = 1
        /\ U[1] = 123 /\ U[Len(U) - 1] = 125 /\ U[Len(U)] = 10
        /\ (pT # -1) <=> ~config.opts.DisableTimestamp
        /\ pT \in {-1, 1}
        /\ pL > pT /\ (pT = -1 => pL = 1)
        /\ IndexOf(U, KeyToken(NamesNotInUse.time)) = -1
        /\ IndexOf(U, KeyToken(NamesNotInUse.level)) = -1
        /\ IndexOf(U, KeyToken(NamesNotInUse.message)) = -1
        /\ \A i \in 1..Len(fields) :
              /\ pF[i] > pL
              /\ pF[i] > IndexOf(U, KeyToken(NamesInUse.message))
              /\ i > 1 => pF[i] > pF[i - 1]

\* The 0-based index of the message key in the line, -1 without one
MessageKeyAt == IndexOf(StructuredText, <<44>> \o KeyToken(NamesInUse.message))

LevelKeyAt == IndexOf(StructuredText, KeyToken(NamesInUse.level))

\* C21 as stated: every structured line carries its keys in the order time,
\* level, message, fields, the time key if and only if timestamps are
\* enabled, the level and the message key in every entry, under the names
\* in use and never under the others.
C21_LevelAndMessageKeysAlways ==
    StructuredEntry => HeaderKeysInOrder /\ MessageKeyAt > LevelKeyAt

\* C21 as the code has it: as above, but the message key is there if and
\* only if the message is not empty (and then it follows the level key).
C21_MessageKeyIffMessage ==
    StructuredEntry =>
        /\ HeaderKeysInOrder
        /\ (MessageKeyAt # -1) <=> call.msg # <<>>
        /\ call.msg # <<>> => MessageKeyAt > LevelKeyAt

\* A coloured structured entry under the verbose names with a timestamp,
\* two fields and an empty message: no message key
C21_Witness ==
    /\ StructuredEntry
    /\ logger.colorJSONEnabled
    /\ config.opts.VerboseFields /\ ~config.opts.DisableTimestamp
    /\ call.msg = <<>>
    /\ Len(call.keyvals) = 4
    /\ IndexOf(StructuredText, KeyToken(B("time"))) = 1
    /\ MessageKeyAt = -1

(***************************************************************************)
(* The order of the fields                                                 *)
(***************************************************************************)
\* The fields attached on the way from the original logger to logger i, in
\* the order of the calls that attached them
RECURSIVE AttachedTo(_)
AttachedTo(i) ==
    IF i = 0 THEN <<>> ELSE AttachedTo(made[i].parent) \o made[i].attached

\* The fields of the probe call on logger i, in argument order
ProbeFields(i) ==
    LET pairs == PairsOf(probeKeyvals)
    IN  [k \in 1..Len(pairs) |->
            KV(InGroups(made[i].view.groups, pairs[k].key), pairs[k].value)]

\* fields as a console line without colour shows them: a space, the key, =,
\* the value, for values that need no quotes
RECURSIVE ShownFields(_)
ShownFields(fields) ==
    IF fields = <<>> THEN <<>>
    ELSE <<32>> \o Head(fields).key \o <<61>> \o Sprint(Head(fields).value)
         \o ShownFields(Tail(fields))

\* The keys of fields, in order
KeysOf(fields) == [k \in 1..Len(fields) |-> fields[k].key]

\* C22: every logger carries the fields attached by the successive With and
\* WithAttrs calls that led to it, in attachment order, and a call on it
\* emits them followed by the fields of the call in argument order - every
\* one of them, a key that occurs twice being emitted twice, each time with
\* its own value.
C22_FieldsInAttachmentOrder ==
    /\ \A i \in 1..Len(loggers) : made[i].view.baseFields = AttachedTo(i)
    /\ (said.made /\ said.line # <<>>) =>
          said.line = <<B("ERR probe") \o ShownFields(AttachedTo(said.logger))
                                      \o ShownFields(ProbeFields(said.logger))
                                      \o <<10>>>>

\* A call on a logger made by With("a", "1", "b", "2"), With("a", 3) and
\* WithAttrs: the key a is emitted twice, first with 1, then with 3
C22_Witness ==
    /\ said.made
    /\ said.logger = 4
    /\ KeysOf(AttachedTo(4)) = <<B("a"), B("b"), B("a"), B("y")>>
    /\ said.line = <<B("ERR probe a=1 b=2 a=3 y=true k=v") \o <<10>>>>

(***************************************************************************)
(* The console line                                                        *)
(***************************************************************************)
ConsoleEntry == EntryEmitted /\ logger.mode = ModeConsole

\* The three-letter code of each severity
LevelCode ==
    [l \in Levels \ {Disabled} |->
        CASE l = TraceLevel -> B("TRC")
          [] l = DebugLevel -> B("DBG")
          [] l = InfoLevel -> B("INF")
          [] l = WarnLevel -> B("WRN")
          [] l = ErrorLevel -> B("ERR")
          [] l = FatalLevel -> B("FTL")
          [] l = PanicLevel -> B("PNC")
          [] l = NoLevel -> B("---")]

\* The fields as key=value, each after a space
RECURSIVE KeyEqualsValue(_)
KeyEqualsValue(fields) ==
    IF fields = <<>> THEN <<>>
    ELSE <<32>> \o Head(fields).key \o <<61>> \o formatConsoleValue(Head(fields).value)
         \o KeyEqualsValue(Tail(fields))

\* [timestamp ]LEVEL[ message][ key=value]* and the newline
ConsoleLine ==
    (IF config.opts.DisableTimestamp THEN <<>>
     ELSE Format(logger.timeFormat, call.now) \o <<32>>)
    \o LevelCode[call.level]
    \o (IF call.msg = <<>> THEN <<>> ELSE <<32>> \o call.msg)
    \o KeyEqualsValue(PairsOf(call.keyvals))
    \o <<10>>

\* Info("ready", "foo", "bar", "greeting", "hello world") without timestamp
\* and without colour
ReadyExample ==
    /\ call.made
    /\ call.level = InfoLevel
    /\ call.msg = B("ready")
    /\ call.keyvals = <<StringValue(B("foo")), StringValue(B("bar")),
                        StringValue(B("greeting")), StringValue(B("hello world"))>>
    /\ logger.mode = ModeConsole
    /\ config.opts.DisableTimestamp
    /\ ~logger.colorEnabled

\* C23: a console entry is, colour sequences apart, the timestamp and a
\* space only when timestamps are enabled, the three-letter code of the
\* level, a space and the message only when the message is not empty, then
\* a space and key=value per field in order; the call of the example gives
\* exactly INF ready foo=bar greeting="hello world".
C23_ConsoleLineFormat ==
    /\ ConsoleEntry =>
          /\ Len(writes) = 1
          /\ Uncoloured(writes[1]) = ConsoleLine
          /\ ~logger.colorEnabled => writes[1] = ConsoleLine
    /\ ReadyExample =>
          writes = <<B("INF ready foo=bar greeting=\"hello world\"") \o <<10>>>>

\* The call of the example was made and its line written
C23_Witness ==
    /\ ReadyExample
    /\ Len(writes) = 1
    /\ Len(writes[1]) = 41

(***************************************************************************)
(* Quoting of console values                                               *)
(***************************************************************************)
\* The text holds a space, a backslash, a double quote or a byte outside
\* 0x21..0x7e
HoldsByteToQuote(text) ==
    \E i \in 1..Len(text) : text[i] \in {32, 92, 34} \/ text[i] < 33 \/ text[i] > 126

\* The text of a value, quoted if and only if it holds a byte to quote
QuotedIfNeeded(v) ==
    IF HoldsByteToQuote(Sprint(v)) THEN Quote(Sprint(v)) ELSE Sprint(v)

\* The fields as key=value with every value quoted if and only if needed
RECURSIVE KeyEqualsQuotedIfNeeded(_)
KeyEqualsQuotedIfNeeded(fields) ==
    IF fields = <<>> THEN <<>>
    ELSE <<32>> \o Head(fields).key \o <<61>> \o QuotedIfNeeded(Head(fields).value)
         \o KeyEqualsQuotedIfNeeded(Tail(fields))

\* The line ends with the fields rendered so
EndsWith(s, tail) ==
    Len(s) >= Len(tail) /\ SubSeq(s, Len(s) - Len(tail) + 1, Len(s)) = tail

\* C24: in a console line every field value, of whatever kind, is rendered
\* quoted if and only if its text holds a space, a backslash, a double quote
\* or a byte outside 0x21..0x7e, and unquoted and unchanged otherwise.
C24_ValuesQuotedIffNeeded ==
    (ConsoleEntry /\ ~logger.colorEnabled) =>
        EndsWith(writes[1], KeyEqualsQuotedIfNeeded(PairsOf(call.keyvals)) \o <<10>>)

(***************************************************************************)
(* Field values that cannot be marshaled                                   *)
(***************************************************************************)
\* The marshaling of v fails: json.Marshal for a value without a case of its
\* own, MarshalJSON for a json.Marshaler
MarshalFails(v) == v.kind \in {"opaque", "marshaler"} /\ ~v.marshal.ok

\* keyvals with every value whose marshaling fails replaced by the text of
\* the error, as a string
WithErrorTexts(keyvals) ==
    [i \in 1..Len(keyvals) |->
        IF MarshalFails(keyvals[i]) THEN StringValue(keyvals[i].marshal.out)
        ELSE keyvals[i]]

SomeMarshalFails == \E i \in 1..Len(call.keyvals) : MarshalFails(call.keyvals[i])

\* C25: when the marshaling of a field value fails, the structured entry is
\* still written as one line with its time, level, message and every field,
\* and it is the line of the same call with the text of the error, as a
\* string, in the place of the value.
C25_MarshalErrorReplacesValue ==
    (StructuredEntry /\ SomeMarshalFails) =>
        /\ HeaderKeysInOrder
        /\ (MessageKeyAt # -1) <=> call.msg # <<>>
        /\ writes = logInternal(logger, call.level, call.msg,
                                WithErrorTexts(call.keyvals), call.now)

\* A channel was logged before an integer: the line carries the text of the
\* error for the one and the other after it
C25_Witness ==
    /\ StructuredEntry
    /\ call.keyvals = <<StringValue(B("ch")), chanValue, StringValue(B("after")),
                        IntValue(7)>>
    /\ call.msg = B("ready")
    /\ EndsWith(Uncoloured(writes[1]),
                B(",\"ch\":\"json: unsupported type: chan int\",\"after\":7}") \o <<10>>)

(***************************************************************************)
(* The fast path of the structured mode                                    *)
(***************************************************************************)
\* The entry took the fast path: structured, no JSON colouring, no field
FastPathEntry ==
    /\ StructuredEntry
    /\ ~(logger.colorJSONEnabled /\ logger.colorEnabled)
    /\ logFields(logger, call.keyvals) = <<>>

\* C28: an entry that takes the fast path is written with exactly the bytes
\* the general path gives for the same severity, message, timestamp string
\* and key names.
C28_FastPathEqualsGeneralPath ==
    FastPathEntry =>
        writes = <<writeStructuredGeneral(call.level, call.msg, <<>>,
                                          logTimestamp(logger, call.now),
                                          ~logger.disableTimestamp, NamesInUse, FALSE)
                   \o <<10>>>>

(***************************************************************************)
(* The dispatch on the type of a field value                               *)
(***************************************************************************)
\* The call passed the one field key = v
OneField(key, v) == call.keyvals = <<StringValue(key), v>>

\* C30: a time.Time field value is rendered in the layout RFC3339Nano and a
\* json.Number as a raw JSON number, in console mode and in structured mode,
\* plain and coloured.
C30_DedicatedCasesApply ==
    LET U == Uncoloured(writes[1])
        stamp == Format(RFC3339Nano, fieldInstant)
    IN  /\ (ConsoleEntry /\ OneField(B("at"), TimeValue(fieldInstant))) =>
              EndsWith(U, B(" at=") \o stamp \o <<10>>)
        /\ (StructuredEntry /\ OneField(B("at"), TimeValue(fieldInstant))) =>
              EndsWith(U, B(",\"at\":\"") \o stamp \o B("\"}") \o <<10>>)
        /\ (ConsoleEntry /\ OneField(B("n"), NumberValue(B("12.5")))) =>
              EndsWith(U, B(" n=12.5") \o <<10>>)
        /\ (StructuredEntry /\ OneField(B("n"), NumberValue(B("12.5")))) =>
              EndsWith(U, B(",\"n\":12.5}") \o <<10>>)

(***************************************************************************)
(* Loggers carried by contexts                                             *)
(***************************************************************************)
\* The contexts on the chain from ctx up to the background context.
RECURSIVE Chain(_, _)
Chain(h, ctx) == IF ctx = nilContext THEN {} ELSE {ctx} \cup Chain(h, h[ctx].parent)

\* The contexts of the chain of ctx that ContextWithLogger made.
LoggerNodes(h, ctx) == {i \in Chain(h, ctx) : h[i].key = loggerContextKey}

\* Contexts are numbered in the order they were made, so the logger stored
\* most recently along a chain is that of its highest-numbered logger node.
MostRecentlyStored(h, ctx) == h[Max(LoggerNodes(h, ctx))].val

StoredNonNil == stored.called /\ stored.lg # nilLogger

StoredNil == stored.called /\ stored.lg = nilLogger

\* C26: LoggerFromContext(ContextWithLogger(ctx, l)) returns l for every
\* non-nil logger l, the most recently stored logger winning along a chain of
\* contexts; ContextWithLogger(ctx, nil) returns ctx itself and makes no
\* context; LoggerFromContext on a nil context or on a context holding no
\* logger returns the no-op logger, and the no-op logger emits nothing.
C26_ContextRoundTrip ==
    /\ StoredNonNil =>
        /\ ~stored.panicked
        /\ LoggerFromContext(ctxs, stored.out) = stored.lg
    /\ \A ctx \in 1..Len(ctxs) :
        LoggerNodes(ctxs, ctx) # {} =>
            LoggerFromContext(ctxs, ctx) = MostRecentlyStored(ctxs, ctx)
    /\ StoredNil =>
        /\ stored.out = stored.ctx
        /\ stored.after = stored.before
    /\ \A ctx \in 0..Len(ctxs) :
        (ctx = nilContext \/ LoggerNodes(ctxs, ctx) = {}) =>
            LoggerFromContext(ctxs, ctx) = noopLogger
    /\ fetched.called /\ (fetched.ctx = nilContext \/ LoggerNodes(ctxs, fetched.ctx) = {}) =>
        fetched.lg = noopLogger
    /\ \A i \in 1..Len(heard) : heard[i].lg # noopLogger

(***************************************************************************)
(* The bridge in front of an adapter                                       *)
(***************************************************************************)
WriteDone == wpc = "done"

\* C27: a Write through the io.Writer bridge returns to its caller and
\* neither exits the process nor panics, whatever severity its lines are
\* given and whichever adapter receives the Logp calls.
C27_BridgeWriteReturns ==
    WriteDone =>
        /\ outcome.how = "return"
        /\ \A i \in 1..Len(effects) : effects[i].kind \notin {"exit", "panic"}

(***************************************************************************)
(* Dropping the level                                                      *)
(***************************************************************************)
\* C29: a logger derived by LogLevel(NoLevel), and by With and WithGroup
\* after that, emits every call of severity Trace .. Panic that the logger
\* it was derived from emits, whatever the threshold of that logger.
C29_NoLevelNeverNarrows ==
    probed.made => (probed.byOrigin => probed.byOffspring)

====
